---------------------------- MODULE Spec2Model ----------------------------
(***************************************************************************)
(* Model of the HCS VRAM interceptor (pkg/interceptor/libhcs_interceptor.c) *)
(* The quota context g_ctx, the allocation table, the lazily bound real    *)
(* vendor functions and the intercepted hooks of the three vendor runtimes *)
(* (CUDA, ACL, HIP), called by application threads.                        *)
(*                                                                         *)
(* Memory is counted in abstract units and size_t is WordBits wide, so     *)
(* every size_t addition is taken modulo 2^WordBits as the C code does.    *)
(* MAX_ALLOCATIONS is scaled down from 65536 so that a full table is       *)
(* reachable.                                                              *)
(*                                                                         *)
(* The PCIe telemetry of pkg/monitoring/ebpf/programs/pcie_monitor.c, the  *)
(* per-device statistics map updated from the probes on every CPU and      *)
(* drained by the periodic reader, is modelled beside it (PcieSpec).       *)
(***************************************************************************)
EXTENDS Integers, Sequences, FiniteSets, TLC

(* ------------------------------ bounds -------------------------------- *)
NumThreads == 2
MaxCalls == 3
SeqMaxCalls == 4
BindMaxCalls == 2
LiveMaxCalls == 2
VendorMaxCalls == 3
ParseMaxCalls == 1
MaxLen == 3
MaxHandles == 3
WordBits == 4
NumCpus == 2
NumDevices == 2
MaxUpdates == 3
MaxReads == 2
MaxTransfer == 2
MaxBlock == 2

(* ------------------------- program constants --------------------------- *)
MAX_ALLOCATIONS == 2
DEFAULT_QUOTA_GB == 4
cudaSuccess == 0
cudaErrorMemoryAllocation == 2
cudaErrorInvalidValue == 1
ACL_SUCCESS == 0
ACL_ERROR_RT_MEMORY_ALLOCATION == 107000
ACL_ERROR_INVALID_PARAM == 107001
hipSuccess == 0
hipErrorOutOfMemory == 2
hipErrorInvalidValue == 1
mock_total == 16

(* size_t arithmetic *)
WordMod == 2 ^ WordBits
SizeMax == WordMod - 1
WAdd(a, b) == (a + b) % WordMod

Threads == 1 .. NumThreads
NoThread == 0

(* Device handles.  The real allocators hand out 1..MaxHandles; NULL is 0; *)
(* ForeignHandle is memory obtained before interposition began.            *)
NULL == 0
Handles == 1 .. MaxHandles
ForeignHandle == MaxHandles + 1

(* Value of an output parameter the callee has not written. *)
Untouched == 0 - 1

Vendors == {"cuda", "acl", "hip"}
AllocHooks == {"cudaMalloc", "cudaMallocManaged", "aclrtMalloc", "hipMalloc"}
FreeHooks == {"cudaFree", "aclrtFree", "hipFree"}
QueryHooks == {"cudaMemGetInfo", "aclrtGetMemInfo", "hipMemGetInfo"}
Hooks == AllocHooks \cup FreeHooks \cup QueryHooks

(* The exported accessors; all but hcs_get_quota_limit take the lock. *)
(* The hooks the threads of the concurrent runs call: an application that  *)
(* uses the CUDA runtime alone.                                            *)
ConcHooks == {"cudaMalloc", "cudaFree", "cudaMemGetInfo"}

LockedAccessors == {"hcs_get_quota_used", "hcs_get_peak_usage", "hcs_get_stats"}
Accessors == LockedAccessors \cup {"hcs_get_quota_limit"}

VendorOf(h) ==
    IF h \in {"cudaMalloc", "cudaMallocManaged", "cudaFree", "cudaMemGetInfo"} THEN "cuda"
    ELSE IF h \in {"aclrtMalloc", "aclrtFree", "aclrtGetMemInfo"} THEN "acl"
    ELSE "hip"

SuccessCode(v) ==
    IF v = "cuda" THEN cudaSuccess ELSE IF v = "acl" THEN ACL_SUCCESS ELSE hipSuccess

OomCode_swapped(v) ==
    IF v = "cuda" THEN cudaErrorInvalidValue
    ELSE IF v = "acl" THEN ACL_ERROR_INVALID_PARAM ELSE hipErrorInvalidValue

OomCode(v) ==
    IF v = "cuda" THEN cudaErrorMemoryAllocation
    ELSE IF v = "acl" THEN ACL_ERROR_RT_MEMORY_ALLOCATION ELSE hipErrorOutOfMemory

InvalidCode_oom(v) == OomCode(v)

InvalidCode(v) ==
    IF v = "cuda" THEN cudaErrorInvalidValue
    ELSE IF v = "acl" THEN ACL_ERROR_INVALID_PARAM ELSE hipErrorInvalidValue

(* Failure codes a real vendor function may return (any non-success code). *)
UnknownError == 999
RealErrors(v) == {OomCode(v), UnknownError}

(* --------------------------- configuration ----------------------------- *)
(* HCS_VRAM_QUOTA as a sequence of characters; << >> is unset or empty.    *)
Digits == <<"0", "1", "2", "3", "4", "5", "6", "7", "8", "9">>
IsDigit(c) == \E i \in 1 .. 10 : Digits[i] = c
DigitVal(c) == (CHOOSE i \in 1 .. 10 : Digits[i] = c) - 1

RECURSIVE LeadingDigits(_)
LeadingDigits(s) ==
    IF s = << >> \/ ~IsDigit(Head(s)) THEN 0 ELSE 1 + LeadingDigits(Tail(s))

RECURSIVE DecimalValue(_, _)
DecimalValue(s, n) ==
    IF n = 0 THEN 0 ELSE DecimalValue(s, n - 1) * 10 + DigitVal(s[n])

Lower(c) ==
    IF c = "G" THEN "g" ELSE IF c = "M" THEN "m" ELSE IF c = "K" THEN "k"
    ELSE IF c = "I" THEN "i" ELSE IF c = "B" THEN "b" ELSE c

(* strncasecmp(endptr, pat, Len(pat)) == 0 *)
HasPrefixNoCase(s, pat) ==
    /\ Len(s) >= Len(pat)
    /\ \A i \in 1 .. Len(pat) : Lower(s[i]) = Lower(pat[i])

RECURSIVE SkipSpaces(_)
SkipSpaces(s) == IF s # << >> /\ Head(s) = " " THEN SkipSpaces(Tail(s)) ELSE s

(* Byte counts exceed the integers of the checker: a count is held as its  *)
(* base-1000 limbs, least significant first, without leading zero limbs.   *)
LimbBase == 10 ^ 3

RECURSIVE BigNorm(_)
BigNorm(x) == IF x # << >> /\ x[Len(x)] = 0 THEN BigNorm(SubSeq(x, 1, Len(x) - 1)) ELSE x

RECURSIVE BigFromInt(_)
BigFromInt(n) == IF n = 0 THEN << >> ELSE <<n % LimbBase>> \o BigFromInt(n \div LimbBase)

RECURSIVE BigMulCarry(_, _, _)
BigMulCarry(x, m, c) ==
    IF x = << >> THEN BigFromInt(c)
    ELSE LET v == Head(x) * m + c
         IN  <<v % LimbBase>> \o BigMulCarry(Tail(x), m, v \div LimbBase)

BigMul(x, m) == BigNorm(BigMulCarry(x, m, 0))

(* quotient limbs and remainder of x by a small divisor d *)
RECURSIVE BigDivRem(_, _)
BigDivRem(x, d) ==
    IF x = << >> THEN [q |-> << >>, r |-> 0]
    ELSE LET hi == BigDivRem(Tail(x), d)
             v == hi.r * LimbBase + Head(x)
         IN  [q |-> <<v \div d>> \o hi.q, r |-> v % d]

BigDiv(x, d) == BigNorm(BigDivRem(x, d).q)
BigMod(x, d) == BigDivRem(x, d).r

RECURSIVE BigMulPow(_, _, _)
BigMulPow(x, m, e) == IF e = 0 THEN x ELSE BigMulPow(BigMul(x, m), m, e - 1)

RECURSIVE BigDivPow(_, _, _)
BigDivPow(x, d, e) == IF e = 0 THEN x ELSE BigDivPow(BigDiv(x, d), d, e - 1)

(* strtod(str, &endptr) for decimal literals: leading white space, an      *)
(* optional sign, digits with an optional fraction.  The value is          *)
(* num / 10^frac, negated when neg; rest is what endptr points at; nothing *)
(* is converted (endptr == str) when there is no digit.                    *)
IsSpace(c) == c \in {" ", "\t", "\n"}

RECURSIVE SkipWhite(_)
SkipWhite(s) == IF s # << >> /\ IsSpace(Head(s)) THEN SkipWhite(Tail(s)) ELSE s

strtod(str) ==
    LET s1 == SkipWhite(str)
        signed == s1 # << >> /\ Head(s1) \in {"+", "-"}
        s2 == IF signed THEN Tail(s1) ELSE s1
        ni == LeadingDigits(s2)
        s3 == SubSeq(s2, ni + 1, Len(s2))
        dot == s3 # << >> /\ Head(s3) = "."
        nf == IF dot THEN LeadingDigits(Tail(s3)) ELSE 0
        converted == ni + nf > 0
        used == ni + (IF dot /\ converted THEN 1 + nf ELSE 0)
        digits == SubSeq(s2, 1, ni) \o (IF dot THEN SubSeq(s3, 2, 1 + nf) ELSE << >>)
    IN  [converted |-> converted,
         neg |-> signed /\ Head(s1) = "-",
         num |-> DecimalValue(digits, ni + nf),
         frac |-> nf,
         rest |-> SubSeq(s2, used + 1, Len(s2))]

SuffixUnit_decimalOnly(rest) ==
    IF HasPrefixNoCase(rest, <<"G">>) THEN [base |-> 1000, exp |-> 3]
    ELSE IF HasPrefixNoCase(rest, <<"M">>) THEN [base |-> 1000, exp |-> 2]
    ELSE IF HasPrefixNoCase(rest, <<"K">>) THEN [base |-> 1000, exp |-> 1]
    ELSE [base |-> 1, exp |-> 0]

(* the unit suffix chain: value *= base^exp *)
SuffixUnit(rest) ==
    IF HasPrefixNoCase(rest, <<"G", "i">>) THEN [base |-> 1024, exp |-> 3]
    ELSE IF HasPrefixNoCase(rest, <<"G">>) THEN [base |-> 1000, exp |-> 3]
    ELSE IF HasPrefixNoCase(rest, <<"M", "i">>) THEN [base |-> 1024, exp |-> 2]
    ELSE IF HasPrefixNoCase(rest, <<"M">>) THEN [base |-> 1000, exp |-> 2]
    ELSE IF HasPrefixNoCase(rest, <<"K", "i">>) THEN [base |-> 1024, exp |-> 1]
    ELSE IF HasPrefixNoCase(rest, <<"K">>) THEN [base |-> 1000, exp |-> 1]
    ELSE [base |-> 1, exp |-> 0]

(* A size_t result: mag, or 2^64 - mag when wrapped.                       *)
Bytes(mag) == [wrapped |-> FALSE, mag |-> mag]

(* (size_t)value for the double value = -mag or mag, already truncated     *)
(* toward zero.  The conversion of a value <= -1 is undefined: builds give *)
(* 0 (saturating) or 2^64 - mag (wrapping).                                *)
CastToSizeT(neg, mag) ==
    IF neg /\ mag # << >> THEN {Bytes(<< >>), [wrapped |-> TRUE, mag |-> mag]}
    ELSE {Bytes(mag)}

(* parse_size_string: the set of values the call may return *)
parse_size_string(str) ==
    IF str = << >> THEN {Bytes(<< >>)}
    ELSE UNION {IF ~c.converted THEN {Bytes(<< >>)}
                ELSE UNION {UNION {CastToSizeT(c.neg, value) :
                                     value \in {BigDivPow(BigMulPow(BigFromInt(c.num),
                                                                    unit.base, unit.exp),
                                                          10, c.frac)}} :
                              unit \in {SuffixUnit(SkipSpaces(c.rest))}} :
                  c \in {strtod(str)}}

(* a size_t result in the word of the model *)
ToWord(b) ==
    IF b.wrapped THEN (WordMod - BigMod(b.mag, WordMod)) % WordMod
    ELSE BigMod(b.mag, WordMod)

(* One unit of the model stands for 1 GiB in the default quota. *)
DefaultQuota == DEFAULT_QUOTA_GB

QuotaLimitFromEnv_fallback(env) ==
    IF env # << >> /\ parse_size_string(env) # {Bytes(<< >>)}
    THEN {ToWord(b) : b \in parse_size_string(env)}
    ELSE {DefaultQuota % WordMod}

(* the values hcs_init may give quota_limit *)
QuotaLimitFromEnv(env) ==
    IF env # << >> THEN {ToWord(b) : b \in parse_size_string(env)}
    ELSE {DefaultQuota % WordMod}

QuotaEnvs == {<< >>, <<"2">>, <<"0">>}
ConcQuotaEnvs == {<<"2">>}
BindQuotaEnvs == {<< >>}

(* every setting of at most MaxLen characters over ParseChars *)
ParseChars == {"0", "1", "5", ".", "+", "-", " ", "G", "g", "M", "K", "i", "B"}
ParseEnvs == UNION {[1 .. n -> ParseChars] : n \in 0 .. MaxLen}

(* ------------------------- allocation table ---------------------------- *)
allocation_entry_t(p, s, u) == [ptr |-> p, size |-> s, in_use |-> u]

find_allocation_stale(table, p) ==
    IF \E i \in 1 .. Len(table) : table[i].ptr = p
    THEN CHOOSE i \in 1 .. Len(table) :
            /\ table[i].ptr = p
            /\ \A j \in 1 .. i - 1 : table[j].ptr # p
    ELSE 0

(* find_allocation: index of the first live entry for ptr, 0 where C has -1 *)
find_allocation(table, p) ==
    IF \E i \in 1 .. Len(table) : table[i].in_use /\ table[i].ptr = p
    THEN CHOOSE i \in 1 .. Len(table) :
            /\ table[i].in_use /\ table[i].ptr = p
            /\ \A j \in 1 .. i - 1 : ~(table[j].in_use /\ table[j].ptr = p)
    ELSE 0

add_allocation_overwrite(table, p, s) ==
    IF \E i \in 1 .. Len(table) : ~table[i].in_use
    THEN LET i == CHOOSE k \in 1 .. Len(table) :
                    /\ ~table[k].in_use
                    /\ \A j \in 1 .. k - 1 : table[j].in_use
         IN  [table EXCEPT ![i] = allocation_entry_t(p, s, TRUE)]
    ELSE IF Len(table) < MAX_ALLOCATIONS THEN Append(table, allocation_entry_t(p, s, TRUE))
    ELSE [table EXCEPT ![1] = allocation_entry_t(p, s, TRUE)]

add_allocation_appendOnly(table, p, s) ==
    IF Len(table) < MAX_ALLOCATIONS THEN Append(table, allocation_entry_t(p, s, TRUE))
    ELSE table

(* add_allocation: the table after the call; unchanged when it returns false *)
add_allocation(table, p, s) ==
    IF \E i \in 1 .. Len(table) : ~table[i].in_use
    THEN LET i == CHOOSE k \in 1 .. Len(table) :
                    /\ ~table[k].in_use
                    /\ \A j \in 1 .. k - 1 : table[j].in_use
         IN  [table EXCEPT ![i] = allocation_entry_t(p, s, TRUE)]
    ELSE IF Len(table) < MAX_ALLOCATIONS THEN Append(table, allocation_entry_t(p, s, TRUE))
    ELSE table

add_allocation_ok(table) ==
    \/ \E i \in 1 .. Len(table) : ~table[i].in_use
    \/ Len(table) < MAX_ALLOCATIONS

remove_allocation_size_anySlot(table, p) ==
    LET idx == find_allocation(table, p)
    IN  IF idx > 0 THEN table[idx].size ELSE IF Len(table) > 0 THEN table[1].size ELSE 0

(* remove_allocation: the size it returns, and the table it leaves *)
remove_allocation_size(table, p) ==
    LET idx == find_allocation(table, p) IN IF idx > 0 THEN table[idx].size ELSE 0

remove_allocation_table_keep(table, p) == table

remove_allocation_table_zeroed(table, p) ==
    LET idx == find_allocation(table, p)
    IN  IF idx > 0 THEN [table EXCEPT ![idx].size = 0] ELSE table

remove_allocation_table(table, p) ==
    LET idx == find_allocation(table, p)
    IN  IF idx > 0 THEN [table EXCEPT ![idx].in_use = FALSE] ELSE table

LiveIdx(table) == {i \in 1 .. Len(table) : table[i].in_use}

RECURSIVE SumSizes(_, _)
SumSizes(table, idxs) ==
    IF idxs = {} THEN 0
    ELSE LET i == CHOOSE k \in idxs : TRUE
         IN  table[i].size + SumSizes(table, idxs \ {i})

LiveSum(table) == SumSizes(table, LiveIdx(table))

(* ------------------------------ state ---------------------------------- *)
VARIABLES
    lock,            \* g_ctx.lock: NoThread or the thread that holds it
    quota_limit, quota_used, peak_usage,
    total_allocs, total_frees, failed_allocs,
    allocations,     \* g_ctx.allocations[0 .. allocation_count-1]
    initialized,
    real,            \* real[h]: the real_<h> pointer is non-NULL
    quotaEnv,        \* HCS_VRAM_QUOTA
    libLoaded,       \* libLoaded[v]: dlsym(RTLD_NEXT, ..) finds vendor v's symbols
    devLive,         \* devLive[s]: handles handed out in address space s and not
                     \* taken back
    oneSpace,        \* the vendor runtimes allocate from one address space, so that
                     \* no two of them hand out the same handle value
    pc, hook, argSize, argPtr, result, outFree, outTotal,
    argExtra,        \* the flags, policy or attr argument of t's current call
    realExtra,       \* the flags, policy or attr handed to the real function
    calls,           \* hook calls started so far
    realCalls,       \* realCalls[t]: invocations of the real function in t's current call
    realArg,         \* handle passed to the real free in t's current call
    realRet,         \* what the real function returned in t's current call
    tracked,         \* tracked[t]: t's current free found a live entry for its handle
    committed,       \* total size added to quota_used by commits so far
    lost,            \* total size committed while add_allocation had no slot
    rt,              \* the last commit: its handle, quota_used before it, entry stored
    freed,           \* total size the free hooks have taken off quota_used so far
    overlap,         \* some allocate call was admitted while another was between its
                     \* admission and its commit
    maxUsed,         \* the largest value quota_used has had after a commit so far
    pcie_stats_map,  \* pcie_stats_map[d]: NoStats or the counters held for device d
    upc, uarg,       \* update_stats on each CPU: its position and its arguments
    rpc, rdev,       \* handle_pcie_read: its position and the device it is at
    emitted,         \* emitted[d]: the sums of the counters in the events submitted for d
    passed,          \* passed[d]: the sums of the arguments passed to update_stats for d
    updates, reads,  \* calls of update_stats and of handle_pcie_read so far
    watch,           \* the names of the step rules this run watches
    broken           \* the watched rules some step so far has broken

ctxVars == <<quota_limit, quota_used, peak_usage, total_allocs, total_frees,
             failed_allocs, allocations, initialized>>
envVars == <<quotaEnv, libLoaded, devLive, oneSpace>>
argVars == <<hook, argSize, argPtr, outFree, outTotal, argExtra>>
realVars == <<realCalls, realArg, realRet, realExtra>>
histVars == <<tracked, committed, lost, rt, freed, overlap, maxUsed>>
pcieVars == <<pcie_stats_map, upc, uarg, rpc, rdev, emitted, passed, updates, reads>>
obsVars == <<watch, broken>>
hcsVars == <<lock, ctxVars, real, envVars, pc, argVars, result, calls, realVars, histVars,
             obsVars>>
vars == <<hcsVars, pcieVars>>

allocation_count == Len(allocations)

(* The application asks for ordinary sizes and for the largest size_t. *)
ReqSizes == (0 .. MaxBlock) \cup {SizeMax}

(* Handles whose allocate hook has not yet returned to the application. *)
InFlight ==
    {argPtr[t] : t \in {u \in Threads : hook[u] \in AllocHooks
                                        /\ pc[u] \in {"lock2", "commit", "ret"}}}

FreeArgs == ((Handles \cup {NULL, ForeignHandle}) \ InFlight) \cup {NULL}

NoCommit == [ptr |-> NULL, used |-> 0, size |-> 0, stored |-> FALSE]

AllLoaded == [v \in Vendors |-> TRUE]

(* ------------------------- PCIe telemetry state ------------------------ *)
Cpus == 1 .. NumCpus
Devices == 0 .. NumDevices - 1

(* bpf_map_lookup_elem finds no element for the key *)
NoStats == [present |-> FALSE, read_bytes |-> 0, write_bytes |-> 0, replay_count |-> 0]

(* struct pcie_stats (last_update is the clock, which the model leaves to  *)
(* the reader's choice between recent and stale)                           *)
pcie_stats(r, w, c) ==
    [present |-> TRUE, read_bytes |-> r, write_bytes |-> w, replay_count |-> c]

Counts(r, w, c) == [read_bytes |-> r, write_bytes |-> w, replay_count |-> c]

NoUpdate == [dev |-> 0, read_bytes |-> 0, write_bytes |-> 0, replay_count |-> 0]

(* The arguments the probes pass: handle_pci_read and the DMA-from-device  *)
(* case (len, 0, 0), handle_pci_write and DMA-to-device (0, len, 0), the   *)
(* interrupt tracepoint (0, 0, 1) for device 0.                            *)
ProbeArgs ==
    {[dev |-> d, read_bytes |-> n, write_bytes |-> 0, replay_count |-> 0] :
        d \in Devices, n \in 1 .. MaxTransfer}
    \cup {[dev |-> d, read_bytes |-> 0, write_bytes |-> n, replay_count |-> 0] :
        d \in Devices, n \in 1 .. MaxTransfer}
    \cup {[dev |-> 0, read_bytes |-> 0, write_bytes |-> 0, replay_count |-> 1]}

(* The empty maps at program load. *)
PcieInit ==
    /\ pcie_stats_map = [d \in Devices |-> NoStats]
    /\ upc = [c \in Cpus |-> "idle"]
    /\ uarg = [c \in Cpus |-> NoUpdate]
    /\ rpc = "idle"
    /\ rdev = 0
    /\ emitted = [d \in Devices |-> Counts(0, 0, 0)]
    /\ passed = [d \in Devices |-> Counts(0, 0, 0)]
    /\ updates = 0
    /\ reads = 0

(* The statically initialized g_ctx and real_* pointers, before hcs_init.  *)
InitWith(libs, envs, spaces, rules) ==
    /\ lock = NoThread
    /\ quota_limit = 0 /\ quota_used = 0 /\ peak_usage = 0
    /\ total_allocs = 0 /\ total_frees = 0 /\ failed_allocs = 0
    /\ allocations = << >>
    /\ initialized = FALSE
    /\ real = [h \in Hooks |-> FALSE]
    /\ quotaEnv \in envs
    /\ libLoaded \in libs
    /\ devLive = [sp \in Vendors \cup {"shared"} |-> {}]
    /\ oneSpace \in spaces
    /\ pc = [t \in Threads |-> "idle"]
    /\ hook = [t \in Threads |-> "none"]
    /\ argSize = [t \in Threads |-> 0]
    /\ argPtr = [t \in Threads |-> NULL]
    /\ result = [t \in Threads |-> 0]
    /\ outFree = [t \in Threads |-> Untouched]
    /\ outTotal = [t \in Threads |-> Untouched]
    /\ calls = 0
    /\ realCalls = [t \in Threads |-> 0]
    /\ realArg = [t \in Threads |-> NULL]
    /\ argExtra = [t \in Threads |-> 0]
    /\ realExtra = [t \in Threads |-> 0]
    /\ realRet = [t \in Threads |-> 0]
    /\ tracked = [t \in Threads |-> FALSE]
    /\ committed = 0
    /\ lost = 0
    /\ rt = NoCommit
    /\ freed = 0
    /\ overlap = FALSE
    /\ maxUsed = 0
    /\ watch = rules
    /\ broken = {}
    /\ PcieInit

(* The step rules watched in the concurrent, the sequential, the binding   *)
(* and the vendor runs.                                                    *)
ConcRules == {"C2", "C4", "C12", "C15", "C18", "C20", "C21", "C26", "C27", "C28", "C29", "C35"}
SeqRules == {"C5", "C14", "C16", "C25", "C33"}
BindRules == {"C6", "C13", "C31"}
VendorRules == {"C30", "C32"}

(* Every vendor runtime is present when the interceptor is loaded. *)
Init == InitWith({AllLoaded}, ConcQuotaEnvs, {TRUE}, ConcRules)

(* The same, with no rule watched. *)
LiveInit == InitWith({AllLoaded}, ConcQuotaEnvs, {TRUE}, {})

SeqInit == InitWith({AllLoaded}, QuotaEnvs, {TRUE}, SeqRules)

(* Any of the vendor runtimes may be absent, and may be loaded later. *)
BindInit == InitWith([Vendors -> BOOLEAN], BindQuotaEnvs, {TRUE}, BindRules)

(* Any quota setting; every vendor runtime present. *)
ParseInit == InitWith({AllLoaded}, ParseEnvs, {TRUE}, {})

(* The vendor runtimes may or may not share an address space. *)
VendorInit == InitWith({AllLoaded}, BindQuotaEnvs, BOOLEAN, VendorRules)

(* --------------------- the code's computations ------------------------- *)
QuotaExceeded_sizeOnly(used, size, limit) == size > limit

QuotaExceeded_ignoresSize(used, size, limit) == used > limit

(* the admission test: g_ctx.quota_used + size > g_ctx.quota_limit *)
QuotaExceeded(used, size, limit) == WAdd(used, size) > limit

CommitUsed_none(used, size) == used

CommitUsed_set(used, size) == size

CommitUsed_twice(used, size) == WAdd(used, 2 * size)

CommitUsed_thrice(used, size) == WAdd(used, 3 * size)

(* g_ctx.quota_used += size *)
CommitUsed(used, size) == WAdd(used, size)

UpdatePeak_accumulate(peak, used) == peak + used

UpdatePeak_stuck(peak, used) == peak

(* if (quota_used > peak_usage) peak_usage = quota_used *)
UpdatePeak(peak, used) == IF used > peak THEN used ELSE peak

FreeUsed_nosub(used, size) == used

FreeUsed_strict(used, size) == IF used > size THEN used - size ELSE used

(* if (quota_used >= size) quota_used -= size; else quota_used = 0 *)
FreeUsed(used, size) == IF used >= size THEN used - size ELSE 0

VirtualFree_total(limit, used) == limit

(* *free = quota_limit > quota_used ? quota_limit - quota_used : 0 *)
VirtualFree(limit, used) == IF limit > used THEN limit - used ELSE 0

UnlockAfterAdmission_held(t) == t

UnlockAfterRemove_held(t) == t

(* the owner of the lock after each pthread_mutex_unlock of a hook *)
UnlockAfterDenial(t) == NoThread
UnlockAfterAdmission(t) == NoThread
UnlockAfterCommit(t) == NoThread
UnlockAfterRemove(t) == NoThread
UnlockAfterQuery(t) == NoThread
UnlockAfterAccessor(t) == NoThread

(* The values of the third argument of cudaMallocManaged (flags) and       *)
(* aclrtMalloc (policy) and of the first of aclrtGetMemInfo (attr); 0 for  *)
(* the hooks that have no such argument.                                   *)
ExtraArgs(h) ==
    IF h = "cudaMallocManaged" THEN {1, 2}
    ELSE IF h = "aclrtMalloc" THEN {0, 2}
    ELSE IF h = "aclrtGetMemInfo" THEN {0, 1}
    ELSE {0}

PassExtra_dropped(x) == 0

(* the argument as the hook hands it to the real function *)
PassExtra(x) == x

(* load_real_functions: every real_* pointer is assigned what dlsym finds *)
load_real_functions(loaded) == [h \in Hooks |-> loaded[VendorOf(h)]]

(* ----------------- rules for the single steps of the hooks ---------------- *)
(* Measures the rules are stated in, read off the state directly.          *)
HasLiveEntry(p) ==
    \E i \in 1 .. Len(allocations) : allocations[i].in_use /\ allocations[i].ptr = p

LiveCount == Cardinality({i \in 1 .. Len(allocations) : allocations[i].in_use})

OomOf(h) ==
    IF h \in {"cudaMalloc", "cudaMallocManaged"} THEN 2
    ELSE IF h = "aclrtMalloc" THEN 107000 ELSE 2

Max0(x) == IF x > 0 THEN x ELSE 0

(* the admission check of t denies / admits in this step *)
Denies(t) == pc[t] = "check" /\ pc'[t] = "ret"
Admits(t) == pc[t] = "check" /\ pc'[t] = "in_real"

(* the rule of C2 for a single step *)
C2_DenialFrame_Step ==
       \A t \in Threads :
         Denies(t) =>
            /\ result'[t] = OomOf(hook[t])
            /\ failed_allocs' = failed_allocs + 1
            /\ UNCHANGED <<quota_used, peak_usage, total_allocs, total_frees, allocations>>
            /\ argPtr'[t] = argPtr[t]
            /\ realCalls'[t] = 0

(* the rule of C4 for a single step *)
C4_VirtualizedInfo_Step ==
       \A t \in Threads :
         (hook'[t] \in QueryHooks /\ pc[t] # "ret" /\ pc'[t] = "ret" /\ result'[t] = 0) =>
            /\ lock = t
            /\ outTotal'[t] = quota_limit
            /\ outFree'[t] = Max0(quota_limit - quota_used)
            /\ outFree'[t] <= outTotal'[t]

(* the bookkeeping step of a free of the handle the last commit returned *)
FreesLastCommit(t) ==
    pc[t] = "f_remove" /\ pc'[t] # "f_remove" /\ rt.ptr # NULL /\ argPtr[t] = rt.ptr

(* the rule of C5 for a single step *)
C5_RoundTripWhenStored_Step ==
       \A t \in Threads : (FreesLastCommit(t) /\ rt.stored) => quota_used' = rt.used

(* a free hook leaves the quota figures alone in every step it takes on a  *)
(* null handle or a handle without a live entry                            *)
UntrackedFreeStep ==
       \A t \in Threads :
         (hook[t] \in FreeHooks /\ pc[t] # pc'[t]
            /\ (argPtr[t] = NULL \/ ~HasLiveEntry(argPtr[t]))) =>
            UNCHANGED <<quota_used, peak_usage, total_allocs, total_frees>>

Forwarded(t) == realCalls[t] = 1 /\ realArg[t] = argPtr[t] /\ result[t] = realRet[t]

InvalidOf(h) == IF h = "aclrtFree" THEN 107001 ELSE 1

(* the rule of C6 for a single step *)
C6_FreeSafetyWhenResolved_Step ==
    /\ UntrackedFreeStep

(* the quota figures a failed call must leave alone *)
QuotaFigures == <<quota_used, peak_usage, total_allocs, total_frees, failed_allocs, allocations>>

(* the rule of C12 for a single step *)
C12_RealFailureFrame_Step ==
       \A t \in Threads :
         /\ (pc[t] = "in_real" /\ hook[t] \in AllocHooks /\ pc'[t] # "in_real"
                /\ realRet'[t] # 0) =>
               /\ pc'[t] = "ret" /\ result'[t] = realRet'[t]
               /\ lock' = lock
               /\ UNCHANGED QuotaFigures
         /\ (hook[t] \in AllocHooks /\ pc[t] \in {"lock1", "check", "ret"} /\ pc'[t] # pc[t]
                /\ ~Denies(t) /\ (pc[t] = "ret" => realRet[t] # 0)) =>
               UNCHANGED QuotaFigures

InvalidArgOf(h) ==
    IF h \in {"aclrtMalloc", "aclrtFree", "aclrtGetMemInfo"} THEN 107001 ELSE 1

(* t's hook gives up in this step because its real function is not found *)
GivesUpUnresolved(t) ==
    /\ pc[t] \in {"idle", "resolve"} /\ pc'[t] = "ret"
    /\ hook'[t] \in Hooks /\ ~real'[hook'[t]]

(* the rule of C13 for a single step *)
C13_BindingUnresolved_Step ==
    /\    \A t \in Threads :
            GivesUpUnresolved(t) =>
               /\ result'[t] = InvalidArgOf(hook'[t])
               /\ realCalls'[t] = 0
               /\ lock' = lock
               /\ UNCHANGED QuotaFigures

(* the rule of C14 for a single step *)
C14_TableFullLeak_Step ==
    /\    (pc[1] = "commit" /\ pc'[1] # "commit" /\ LiveCount = MAX_ALLOCATIONS) =>
             /\ allocations' = allocations
             /\ pc'[1] = "ret" /\ result'[1] = 0
             /\ quota_used' = quota_used + argSize[1]
             /\ total_allocs' = total_allocs + 1
             /\ peak_usage' = (IF quota_used' > peak_usage THEN quota_used' ELSE peak_usage)
    /\    (FreesLastCommit(1) /\ ~rt.stored) =>
             /\ quota_used' = quota_used /\ total_frees' = total_frees
             /\ quota_used' = rt.used + rt.size

(* the rule of C15 for a single step *)
C15_QueryErrorPropagated_Step ==
    /\    \A t \in Threads :
            (pc[t] = "in_real" /\ hook[t] \in QueryHooks /\ pc'[t] # "in_real"
               /\ realRet'[t] # 0) =>
              /\ pc'[t] = "ret" /\ result'[t] = realRet'[t]
              /\ outFree'[t] = outFree[t] /\ outTotal'[t] = outTotal[t]
              /\ lock' = lock /\ quota_limit' = quota_limit
              /\ UNCHANGED QuotaFigures

(* the admission check under the quota setting "0" *)
ZeroQuotaCheck == pc[1] = "check" /\ pc'[1] # "check" /\ quotaEnv = <<"0">>

(* the rule of C16 for a single step *)
C16_ZeroQuotaDeniesNonEmpty_Step ==
       ZeroQuotaCheck =>
         /\ quota_limit = 0 /\ quota_used = 0
         /\ argSize[1] > 0 => (Denies(1) /\ result'[1] = OomOf(hook[1]))
         /\ argSize[1] = 0 => Admits(1)

(* the rule of C18 for a single step *)
C18_InitIdempotent_Step ==
       /\ initialized => (initialized' /\ quota_limit' = quota_limit)
       /\ \A t \in Threads :
            /\ (pc[t] = "init" /\ pc'[t] # "init") =>
                  (lock' = lock /\ UNCHANGED QuotaFigures)
            /\ (initialized /\ pc[t] = "idle" /\ hook'[t] = "hcs_init") =>
                  (pc'[t] = "ret" /\ lock' = lock /\ UNCHANGED QuotaFigures)

(* the rule of C20 for a single step *)
C20_EachAdmittedWithinLimit_Step ==
       \A t \in Threads :
         (Admits(t) /\ quota_used + argSize[t] < WordMod) =>
            (lock = t /\ quota_used + argSize[t] <= quota_limit)

(* the rule of C21 for a single step *)
C21_UsedIsCommittedTotal_Step ==
    /\    \A t \in Threads :
            (pc[t] = "commit" /\ pc'[t] # "commit") =>
               /\ lock = t /\ lock' = NoThread
               /\ quota_used' = quota_used + argSize[t]
               /\ total_allocs' = total_allocs + 1
               /\ peak_usage' >= quota_used'
               /\ (LiveCount < MAX_ALLOCATIONS) => HasLiveEntry(argPtr[t])'
    /\    (lock = NoThread /\ lock' = NoThread) =>
            UNCHANGED <<quota_used, peak_usage, total_allocs, allocations>>

(* the number of live entries whose handle is p *)
LiveEntriesFor(p) ==
    Cardinality({i \in 1 .. Len(allocations) : allocations[i].in_use /\ allocations[i].ptr = p})

(* the slots below the high-water index that hold no live entry *)
NonLiveSlots == {i \in 1 .. Len(allocations) : ~allocations[i].in_use}

LowestOf(S) == CHOOSE i \in S : \A j \in S : i <= j

(* the rule of C25 for a single step *)
C25_TableCapacityAndReuse_Step ==
    /\    Len(allocations') >= Len(allocations)
    /\    \A t \in Threads :
            (pc[t] = "commit" /\ pc'[t] # "commit") =>
               LET entry == [ptr |-> argPtr[t], size |-> argSize[t], in_use |-> TRUE]
               IN  /\ (allocations' # allocations) <=> (LiveCount < MAX_ALLOCATIONS)
                   /\ IF NonLiveSlots # {}
                      THEN allocations' = [allocations EXCEPT ![LowestOf(NonLiveSlots)] = entry]
                      ELSE IF Len(allocations) < MAX_ALLOCATIONS
                      THEN allocations' = Append(allocations, entry)
                      ELSE allocations' = allocations

(* the slot of the first live entry for handle p *)
LiveSlotOf(p) ==
    LowestOf({i \in 1 .. Len(allocations) : allocations[i].in_use /\ allocations[i].ptr = p})

(* t's free hook does its bookkeeping in this step, on a handle that has a *)
(* live entry of nonzero size                                              *)
FreesTracked(t) ==
    /\ hook[t] \in FreeHooks /\ pc[t] = "f_remove" /\ pc'[t] # "f_remove"
    /\ HasLiveEntry(argPtr[t]) /\ allocations[LiveSlotOf(argPtr[t])].size > 0

(* the rule of C26 for a single step *)
C26_TrackedFreeEffect_Step ==
       \A t \in Threads :
         FreesTracked(t) =>
            LET i == LiveSlotOf(argPtr[t])
                S == allocations[i].size
            IN  /\ allocations' = [allocations EXCEPT ![i].in_use = FALSE]
                /\ quota_used' = Max0(quota_used - S)
                /\ total_frees' = total_frees + 1
                /\ UNCHANGED <<peak_usage, total_allocs, failed_allocs, quota_limit>>
                /\ lock = t /\ lock' = NoThread
                /\ realCalls[t] = 0 /\ pc'[t] = "in_real" /\ realCalls'[t] = 1

(* t's free hook does its bookkeeping in this step *)
FreeBookkeeping(t) == hook[t] \in FreeHooks /\ pc[t] = "f_remove" /\ pc'[t] # "f_remove"

(* only the commit of an allocation that returned p gives p a live entry *)
EntryOnlyByCommitStep ==
       \A p \in Handles :
         (~HasLiveEntry(p) /\ HasLiveEntry(p)') =>
            \E t \in Threads : pc[t] = "commit" /\ argPtr[t] = p

(* the rule of C27 for a single step *)
C27_DoubleFreeOfNonEmptyCountsOnce_Step ==
    /\    \A t \in Threads :
            FreeBookkeeping(t) =>
               IF LiveEntriesFor(argPtr[t]) = 1
               THEN LET S == allocations[LiveSlotOf(argPtr[t])].size
                    IN  /\ total_frees' = (IF S > 0 THEN total_frees + 1 ELSE total_frees)
                        /\ quota_used' = Max0(quota_used - S)
                        /\ ~HasLiveEntry(argPtr[t])'
               ELSE IF ~HasLiveEntry(argPtr[t]) THEN UNCHANGED QuotaFigures
               ELSE TRUE
    /\ EntryOnlyByCommitStep

(* the rule of C28 for a single step *)
C28_PeakIsHighWaterMark_Step ==
    /\    peak_usage' >= peak_usage

(* t's allocate hook commits in this step; it does so only after the real  *)
(* allocator returned success and a handle                                 *)
Commits(t) == hook[t] \in AllocHooks /\ pc[t] = "commit" /\ pc'[t] # "commit"

(* the rule of C29 for a single step *)
C29_CountersExact_Step ==
       /\ total_allocs' =
            (IF \E t \in Threads : Commits(t) THEN total_allocs + 1 ELSE total_allocs)
       /\ failed_allocs' =
            (IF \E t \in Threads : Denies(t) THEN failed_allocs + 1 ELSE failed_allocs)
       /\ total_frees' =
            (IF \E t \in Threads : FreesTracked(t) THEN total_frees + 1 ELSE total_frees)
       /\ \A t \in Threads :
            Commits(t) => (realRet[t] = 0 /\ argPtr[t] \in Handles /\ realCalls[t] = 1)

(* the table with one more live entry, as every allocate hook stores it *)
WithEntry(entry) ==
    IF NonLiveSlots # {} THEN [allocations EXCEPT ![LowestOf(NonLiveSlots)] = entry]
    ELSE IF Len(allocations) < MAX_ALLOCATIONS THEN Append(allocations, entry)
    ELSE allocations

(* The protocol of the hooks, told without the name of the hook: the value *)
(* of QuotaFigures after the step t takes from its position, given only    *)
(* the request size, the handle and the quota state.                       *)
ProtocolFigures(t) ==
    IF pc[t] = "check" /\ (quota_used + argSize[t]) % (2 ^ WordBits) > quota_limit
    THEN <<quota_used, peak_usage, total_allocs, total_frees, failed_allocs + 1, allocations>>
    ELSE IF pc[t] = "commit"
    THEN LET u == quota_used + argSize[t]
         IN  <<u, IF u > peak_usage THEN u ELSE peak_usage, total_allocs + 1, total_frees,
               failed_allocs,
               WithEntry([ptr |-> argPtr[t], size |-> argSize[t], in_use |-> TRUE])>>
    ELSE IF pc[t] = "f_remove" /\ HasLiveEntry(argPtr[t])
    THEN LET i == LiveSlotOf(argPtr[t])
             S == allocations[i].size
         IN  <<Max0(quota_used - S), peak_usage, total_allocs,
               IF S > 0 THEN total_frees + 1 ELSE total_frees, failed_allocs,
               [allocations EXCEPT ![i].in_use = FALSE]>>
    ELSE QuotaFigures

(* the rule of C30 for a single step *)
C30_HooksEquivalent_Step ==
       \A t \in Threads :
         (pc'[t] # pc[t]) =>
            /\ QuotaFigures' = ProtocolFigures(t)
            /\ Denies(t) => result'[t] = OomOf(hook[t])
            /\ (pc[t] = "in_real") =>
                  /\ result'[t] = realRet'[t]
                  /\ realCalls[t] = 1 /\ realExtra[t] = argExtra[t]
                  /\ hook[t] \in AllocHooks =>
                        (pc'[t] = "lock2") = (realRet'[t] = 0 /\ argPtr'[t] # NULL)
                  /\ hook[t] \in FreeHooks => realArg[t] = argPtr[t]
                  /\ hook[t] \in QueryHooks => (pc'[t] = "q_lock") = (realRet'[t] = 0)
            /\ (pc[t] = "q_write") =>
                  /\ outTotal'[t] = quota_limit
                  /\ outFree'[t] = Max0(quota_limit - quota_used)
                  /\ result'[t] = 0

(* t's hook runs its lazy-load test in this step *)
RunsPrologue(t) ==
    /\ hook'[t] \in Hooks /\ pc'[t] # pc[t]
    /\ pc[t] = "resolve" \/ (pc[t] = "idle" /\ initialized)

(* where the protocol of a hook starts once its real function is bound *)
ProtocolEntry(h, p) ==
    IF h \in AllocHooks THEN "lock1"
    ELSE IF h \in FreeHooks /\ p # NULL THEN "f_lock" ELSE "in_real"

(* the rule of C31 for a single step *)
C31_LazyBinding_Step ==
    /\    \A t \in Threads :
            RunsPrologue(t) =>
               LET h == hook'[t] IN
               /\ real'[h] = (real[h] \/ libLoaded[VendorOf(h)])
               /\ \A g \in Hooks \ {h} : real'[g] = real[g]
               /\ real'[h] => /\ pc'[t] = ProtocolEntry(h, argPtr'[t])
                              /\ result'[t] = 0
    /\    \A h \in Hooks : real[h] => real'[h]

(* what the allocate hooks of all vendors have committed and the free      *)
(* hooks of all vendors have not yet taken off                             *)
PooledUsed == committed - freed

(* the sizes of the live entries whose handle is held in vendor v's        *)
(* address space and not in vendor w's                                     *)
SizesHeldBy(v, w) ==
    {allocations[i].size : i \in {j \in 1 .. Len(allocations) :
                                     /\ allocations[j].in_use
                                     /\ allocations[j].ptr \in devLive[v] \ devLive[w]}}

(* the rule of C32 for a single step *)
C32_PooledQuota_Step ==
       \A t \in Threads :
         /\ (pc[t] = "check" /\ pc'[t] # "check") =>
               /\ Denies(t) <=> ((PooledUsed + argSize[t]) % WordMod > quota_limit)
               /\ (Admits(t) /\ ~oneSpace /\ PooledUsed + argSize[t] < WordMod) =>
                     \A v \in Vendors \ {VendorOf(hook[t])} :
                        \A z \in SizesHeldBy(v, VendorOf(hook[t])) :
                           z + argSize[t] <= quota_limit
         /\ (pc[t] = "q_write" /\ pc'[t] # "q_write") =>
               /\ outFree'[t] = Max0(quota_limit - PooledUsed)
               /\ outTotal'[t] = quota_limit
         /\ (FreeBookkeeping(t) /\ HasLiveEntry(argPtr[t])) =>
               /\ ~allocations'[LiveSlotOf(argPtr[t])].in_use
               /\ PooledUsed' = PooledUsed - allocations[LiveSlotOf(argPtr[t])].size
               /\ quota_used' = PooledUsed'

(* the real free called by t's free hook returns in this step *)
RealFreeReturns(t) == hook[t] \in FreeHooks /\ pc[t] = "in_real" /\ pc'[t] = "ret"

(* the rule of C33 for a single step *)
C33_FreeIgnoresRealOutcome_Step ==
    /\    \A t \in Threads :
            RealFreeReturns(t) =>
               /\ UNCHANGED <<quota_used, peak_usage, total_allocs, total_frees,
                              failed_allocs, allocations, quota_limit>>
               /\ result'[t] = realRet'[t]

(* the rule of C35 for a single step *)
C35_UsedCoversLiveEntries_Step ==
    /\    \A t \in Threads :
            (FreeBookkeeping(t) /\ HasLiveEntry(argPtr[t])) =>
               /\ quota_used >= allocations[LiveSlotOf(argPtr[t])].size
               /\ quota_used' = quota_used - allocations[LiveSlotOf(argPtr[t])].size

(* ------------------------- the watched rules --------------------------- *)
(* the rule named r holds of this step *)
StepRule(r) ==
    CASE r = "C2" -> C2_DenialFrame_Step
      [] r = "C4" -> C4_VirtualizedInfo_Step
      [] r = "C5" -> C5_RoundTripWhenStored_Step
      [] r = "C6" -> C6_FreeSafetyWhenResolved_Step
      [] r = "C12" -> C12_RealFailureFrame_Step
      [] r = "C13" -> C13_BindingUnresolved_Step
      [] r = "C14" -> C14_TableFullLeak_Step
      [] r = "C15" -> C15_QueryErrorPropagated_Step
      [] r = "C16" -> C16_ZeroQuotaDeniesNonEmpty_Step
      [] r = "C18" -> C18_InitIdempotent_Step
      [] r = "C20" -> C20_EachAdmittedWithinLimit_Step
      [] r = "C21" -> C21_UsedIsCommittedTotal_Step
      [] r = "C25" -> C25_TableCapacityAndReuse_Step
      [] r = "C26" -> C26_TrackedFreeEffect_Step
      [] r = "C27" -> C27_DoubleFreeOfNonEmptyCountsOnce_Step
      [] r = "C28" -> C28_PeakIsHighWaterMark_Step
      [] r = "C29" -> C29_CountersExact_Step
      [] r = "C30" -> C30_HooksEquivalent_Step
      [] r = "C31" -> C31_LazyBinding_Step
      [] r = "C32" -> C32_PooledQuota_Step
      [] r = "C33" -> C33_FreeIgnoresRealOutcome_Step
      [] r = "C35" -> C35_UsedCoversLiveEntries_Step

(* Every step of a hook adds the watched rules it breaks to broken. *)
Observe ==
    /\ watch' = watch
    /\ broken' = broken \cup {r \in watch : ~StepRule(r)}

(* ------------------------------ actions -------------------------------- *)
Prologue_noLazyLoad(t, h, p, x) ==
    LET found == real[h]
        direct == h \in QueryHooks \/ (h \in FreeHooks /\ p = NULL)
    IN  /\ real' = [real EXCEPT ![h] = found]
        /\ result' = [result EXCEPT ![t] = IF found THEN 0 ELSE InvalidCode(VendorOf(h))]
        /\ pc' = [pc EXCEPT ![t] =
                    IF ~found THEN "ret"
                    ELSE IF direct THEN "in_real"
                    ELSE IF h \in AllocHooks THEN "lock1" ELSE "f_lock"]
        /\ realCalls' = [realCalls EXCEPT ![t] = IF found /\ direct THEN 1 ELSE 0]
        /\ realArg' = [realArg EXCEPT ![t] = p]
        /\ realExtra' = [realExtra EXCEPT ![t] = PassExtra(x)]

(* The prologue every hook runs once the context is initialized: the lazy  *)
(* load of its real function, then the first thing the hook does.  A hook  *)
(* whose real function is not found returns the invalid-argument code; a   *)
(* query hook and a free of NULL go straight into the real function.       *)
Prologue(t, h, p, x) ==
    LET found == real[h] \/ libLoaded[VendorOf(h)]
        direct == h \in QueryHooks \/ (h \in FreeHooks /\ p = NULL)
    IN  /\ real' = [real EXCEPT ![h] = found]
        /\ result' = [result EXCEPT ![t] = IF found THEN 0 ELSE InvalidCode(VendorOf(h))]
        /\ pc' = [pc EXCEPT ![t] =
                    IF ~found THEN "ret"
                    ELSE IF direct THEN "in_real"
                    ELSE IF h \in AllocHooks THEN "lock1" ELSE "f_lock"]
        /\ realCalls' = [realCalls EXCEPT ![t] = IF found /\ direct THEN 1 ELSE 0]
        /\ realArg' = [realArg EXCEPT ![t] = p]
        /\ realExtra' = [realExtra EXCEPT ![t] = PassExtra(x)]

(* The application calls an intercepted function, or the loader runs the   *)
(* constructor hcs_init.  The hook tests the initialized latch.            *)
Call(t, maxCalls, hooks) ==
    /\ pc[t] = "idle"
    /\ calls < maxCalls
    /\ calls' = calls + 1
    /\ \/ /\ hook' = [hook EXCEPT ![t] = "hcs_init"]
          /\ pc' = [pc EXCEPT ![t] = IF initialized THEN "ret" ELSE "init"]
          /\ rt' = NoCommit
          /\ UNCHANGED <<argSize, argPtr, argExtra, real, result, realCalls, realArg,
                         realExtra>>
       \/ \E h \in hooks :
          \E s \in IF h \in AllocHooks THEN ReqSizes ELSE {0} :
          \E p \in IF h \in FreeHooks THEN FreeArgs
                    ELSE IF h \in AllocHooks THEN {Untouched} ELSE {NULL} :
          \E x \in ExtraArgs(h) :
             /\ hook' = [hook EXCEPT ![t] = h]
             /\ argExtra' = [argExtra EXCEPT ![t] = x]
             /\ argSize' = [argSize EXCEPT ![t] = s]
             /\ argPtr' = [argPtr EXCEPT ![t] = p]
             /\ rt' = IF h \in FreeHooks /\ p = rt.ptr THEN rt ELSE NoCommit
             /\ IF initialized
                THEN Prologue(t, h, p, x)
                ELSE /\ pc' = [pc EXCEPT ![t] = "init"]
                     /\ UNCHANGED <<real, result, realCalls, realArg, realExtra>>
    /\ UNCHANGED <<lock, ctxVars, envVars, outFree, outTotal, realRet,
                   tracked, committed, lost, freed, overlap,
                   maxUsed>>
    /\ UNCHANGED pcieVars
    /\ Observe

hcs_init_reset(t) ==
    /\ pc[t] = "init"
    /\ quota_limit' \in QuotaLimitFromEnv(quotaEnv)
    /\ quota_used' = 0
    /\ real' = load_real_functions(libLoaded)
    /\ initialized' = TRUE
    /\ pc' = [pc EXCEPT ![t] = IF hook[t] = "hcs_init" THEN "ret" ELSE "resolve"]
    /\ UNCHANGED <<lock, peak_usage, total_allocs, total_frees,
                   failed_allocs, allocations, envVars, argVars, result, calls, realVars, histVars>>
    /\ UNCHANGED pcieVars
    /\ Observe

(* The body of hcs_init, run by a caller that found the latch unset. *)
hcs_init(t) ==
    /\ pc[t] = "init"
    /\ quota_limit' \in QuotaLimitFromEnv(quotaEnv)
    /\ real' = load_real_functions(libLoaded)
    /\ initialized' = TRUE
    /\ pc' = [pc EXCEPT ![t] = IF hook[t] = "hcs_init" THEN "ret" ELSE "resolve"]
    /\ UNCHANGED <<lock, quota_used, peak_usage, total_allocs, total_frees,
                   failed_allocs, allocations, envVars, argVars, result, calls, realVars, histVars>>
    /\ UNCHANGED pcieVars
    /\ Observe

(* The hook goes on after its implicit hcs_init. *)
Resolve(t) ==
    /\ pc[t] = "resolve"
    /\ Prologue(t, hook[t], argPtr[t], argExtra[t])
    /\ UNCHANGED <<lock, ctxVars, envVars, argVars, calls, realRet, histVars>>
    /\ UNCHANGED pcieVars
    /\ Observe

(* pthread_mutex_lock(&g_ctx.lock) *)
AcquireLock(t) ==
    /\ pc[t] \in {"lock1", "lock2", "f_lock", "q_lock", "i_lock"}
    /\ lock = NoThread
    /\ lock' = t
    /\ pc' = [pc EXCEPT ![t] =
                IF pc[t] = "lock1" THEN "check"
                ELSE IF pc[t] = "lock2" THEN "commit"
                ELSE IF pc[t] = "f_lock" THEN "f_remove"
                ELSE IF pc[t] = "q_lock" THEN "q_write" ELSE "i_read"]
    /\ UNCHANGED <<ctxVars, real, envVars, argVars, result, calls, realVars, histVars>>
    /\ UNCHANGED pcieVars
    /\ Observe

(* u's allocate call has passed its admission check and has neither        *)
(* committed nor failed in the real allocator yet.                         *)
InWindow(u) == hook[u] \in AllocHooks /\ pc[u] \in {"in_real", "lock2", "commit"}

(* The admission check of the allocate hooks, the unlock that ends it and, *)
(* when the request is admitted, the call of the real allocator.           *)
AdmissionCheck(t) ==
    /\ pc[t] = "check"
    /\ IF QuotaExceeded(quota_used, argSize[t], quota_limit)
       THEN /\ failed_allocs' = failed_allocs + 1
            /\ lock' = UnlockAfterDenial(t)
            /\ result' = [result EXCEPT ![t] = OomCode(VendorOf(hook[t]))]
            /\ pc' = [pc EXCEPT ![t] = "ret"]
            /\ UNCHANGED <<realCalls, overlap>>
       ELSE /\ lock' = UnlockAfterAdmission(t)
            /\ pc' = [pc EXCEPT ![t] = "in_real"]
            /\ realCalls' = [realCalls EXCEPT ![t] = realCalls[t] + 1]
            /\ overlap' = (overlap \/ \E u \in Threads \ {t} : InWindow(u))
            /\ UNCHANGED <<failed_allocs, result>>
    /\ UNCHANGED <<quota_limit, quota_used, peak_usage, total_allocs, total_frees,
                   allocations, initialized, real, envVars, argVars, calls,
                   realArg, realRet, realExtra, tracked, committed, lost, rt, freed,
                   maxUsed>>
    /\ UNCHANGED pcieVars
    /\ Observe

AllocSucceeded_anyResult(res, p, v) == p # NULL

(* result == success && devPtr && *devPtr *)
AllocSucceeded(res, p, v) == res = SuccessCode(v) /\ p # NULL

(* The address space vendor v's real allocator and real free work in.      *)
Space(v) == IF oneSpace THEN "shared" ELSE v

(* The real allocator returns.  It grants a block only if the device can   *)
(* hold one of that size, and never hands out a handle that is still live. *)
RealAllocReturn(t) ==
    /\ pc[t] = "in_real"
    /\ hook[t] \in AllocHooks
    /\ LET v == VendorOf(hook[t])
       IN  \/ \E h \in Handles \ devLive[Space(v)] :
                /\ argSize[t] <= MaxBlock
                /\ devLive' = [devLive EXCEPT ![Space(v)] = @ \cup {h}]
                /\ argPtr' = [argPtr EXCEPT ![t] = h]
                /\ result' = [result EXCEPT ![t] = SuccessCode(v)]
                /\ realRet' = [realRet EXCEPT ![t] = SuccessCode(v)]
                /\ pc' = [pc EXCEPT ![t] =
                            IF AllocSucceeded(SuccessCode(v), h, v) THEN "lock2" ELSE "ret"]
           \/ /\ argSize[t] = 0
              /\ argPtr' = [argPtr EXCEPT ![t] = NULL]
              /\ result' = [result EXCEPT ![t] = SuccessCode(v)]
              /\ realRet' = [realRet EXCEPT ![t] = SuccessCode(v)]
              /\ pc' = [pc EXCEPT ![t] =
                          IF AllocSucceeded(SuccessCode(v), NULL, v) THEN "lock2" ELSE "ret"]
              /\ UNCHANGED devLive
           \/ \E e \in RealErrors(v) :
                /\ result' = [result EXCEPT ![t] = e]
                /\ realRet' = [realRet EXCEPT ![t] = e]
                /\ pc' = [pc EXCEPT ![t] =
                            IF AllocSucceeded(e, argPtr[t], v) THEN "lock2" ELSE "ret"]
                /\ UNCHANGED <<devLive, argPtr>>
    /\ UNCHANGED <<lock, ctxVars, real, quotaEnv, libLoaded, oneSpace, hook, argSize,
                   argExtra, outFree, outTotal, calls, realCalls, realArg, realExtra,
                   histVars>>
    /\ UNCHANGED pcieVars
    /\ Observe

Commit_uncounted(t) ==
    /\ pc[t] = "commit"
    /\ quota_used' = CommitUsed(quota_used, argSize[t])
    /\ total_allocs' = total_allocs
    /\ peak_usage' = UpdatePeak(peak_usage, quota_used')
    /\ allocations' = add_allocation(allocations, argPtr[t], argSize[t])
    /\ lock' = UnlockAfterCommit(t)
    /\ pc' = [pc EXCEPT ![t] = "ret"]
    /\ committed' = committed + argSize[t]
    /\ lost' = IF add_allocation_ok(allocations) THEN lost ELSE lost + argSize[t]
    /\ rt' = [ptr |-> argPtr[t], used |-> quota_used, size |-> argSize[t],
              stored |-> add_allocation_ok(allocations)]
    /\ UNCHANGED <<quota_limit, total_frees, failed_allocs, initialized, real,
                   envVars, argVars, result, calls, realVars, tracked, freed, overlap>>
    /\ maxUsed' = (IF quota_used' > maxUsed THEN quota_used' ELSE maxUsed)
    /\ UNCHANGED pcieVars
    /\ Observe

(* The commit of a successful allocation, to the unlock that ends it. *)
Commit(t) ==
    /\ pc[t] = "commit"
    /\ quota_used' = CommitUsed(quota_used, argSize[t])
    /\ total_allocs' = total_allocs + 1
    /\ peak_usage' = UpdatePeak(peak_usage, quota_used')
    /\ allocations' = add_allocation(allocations, argPtr[t], argSize[t])
    /\ lock' = UnlockAfterCommit(t)
    /\ pc' = [pc EXCEPT ![t] = "ret"]
    /\ committed' = committed + argSize[t]
    /\ lost' = IF add_allocation_ok(allocations) THEN lost ELSE lost + argSize[t]
    /\ rt' = [ptr |-> argPtr[t], used |-> quota_used, size |-> argSize[t],
              stored |-> add_allocation_ok(allocations)]
    /\ UNCHANGED <<quota_limit, total_frees, failed_allocs, initialized, real,
                   envVars, argVars, result, calls, realVars, tracked, freed, overlap>>
    /\ maxUsed' = (IF quota_used' > maxUsed THEN quota_used' ELSE maxUsed)
    /\ UNCHANGED pcieVars
    /\ Observe

FreeRemove_skipReal(t) ==
    /\ pc[t] = "f_remove"
    /\ LET size == remove_allocation_size(allocations, argPtr[t])
       IN  /\ allocations' = remove_allocation_table(allocations, argPtr[t])
           /\ IF size > 0
              THEN /\ quota_used' = FreeUsed(quota_used, size)
                   /\ total_frees' = total_frees + 1
                   /\ pc' = [pc EXCEPT ![t] = "in_real"]
                   /\ realCalls' = [realCalls EXCEPT ![t] = realCalls[t] + 1]
              ELSE /\ pc' = [pc EXCEPT ![t] = "ret"]
                   /\ UNCHANGED <<quota_used, total_frees, realCalls>>
    /\ tracked' = [tracked EXCEPT ![t] =
                     \E i \in 1 .. Len(allocations) :
                        allocations[i].in_use /\ allocations[i].ptr = argPtr[t]]
    /\ freed' = freed + remove_allocation_size(allocations, argPtr[t])
    /\ lock' = UnlockAfterRemove(t)
    /\ UNCHANGED <<quota_limit, peak_usage, total_allocs, failed_allocs, initialized,
                   real, envVars, argVars, result, calls, realArg, realRet, realExtra,
                   committed, lost, rt, overlap, maxUsed>>
    /\ UNCHANGED pcieVars
    /\ Observe

FreeRemove_countsAll(t) ==
    /\ pc[t] = "f_remove"
    /\ LET size == remove_allocation_size(allocations, argPtr[t])
       IN  /\ allocations' = remove_allocation_table(allocations, argPtr[t])
           /\ quota_used' = FreeUsed(quota_used, size)
           /\ total_frees' = total_frees + 1
    /\ tracked' = [tracked EXCEPT ![t] =
                     \E i \in 1 .. Len(allocations) :
                        allocations[i].in_use /\ allocations[i].ptr = argPtr[t]]
    /\ freed' = freed + remove_allocation_size(allocations, argPtr[t])
    /\ lock' = UnlockAfterRemove(t)
    /\ pc' = [pc EXCEPT ![t] = "in_real"]
    /\ realCalls' = [realCalls EXCEPT ![t] = realCalls[t] + 1]
    /\ UNCHANGED <<quota_limit, peak_usage, total_allocs, failed_allocs, initialized,
                   real, envVars, argVars, result, calls, realArg, realRet, realExtra,
                   committed, lost, rt, overlap, maxUsed>>
    /\ UNCHANGED pcieVars
    /\ Observe

(* The bookkeeping of a free hook, the unlock that ends it and the call of *)
(* the real free.                                                          *)
FreeRemove(t) ==
    /\ pc[t] = "f_remove"
    /\ LET size == remove_allocation_size(allocations, argPtr[t])
       IN  /\ allocations' = remove_allocation_table(allocations, argPtr[t])
           /\ IF size > 0
              THEN /\ quota_used' = FreeUsed(quota_used, size)
                   /\ total_frees' = total_frees + 1
              ELSE UNCHANGED <<quota_used, total_frees>>
    /\ tracked' = [tracked EXCEPT ![t] =
                     \E i \in 1 .. Len(allocations) :
                        allocations[i].in_use /\ allocations[i].ptr = argPtr[t]]
    /\ freed' = freed + remove_allocation_size(allocations, argPtr[t])
    /\ lock' = UnlockAfterRemove(t)
    /\ pc' = [pc EXCEPT ![t] = "in_real"]
    /\ realCalls' = [realCalls EXCEPT ![t] = realCalls[t] + 1]
    /\ UNCHANGED <<quota_limit, peak_usage, total_allocs, failed_allocs, initialized,
                   real, envVars, argVars, result, calls, realArg, realRet, realExtra,
                   committed, lost, rt, overlap, maxUsed>>
    /\ UNCHANGED pcieVars
    /\ Observe

RealFreeReturn_rollback(t) ==
    /\ pc[t] = "in_real"
    /\ hook[t] \in FreeHooks
    /\ LET v == VendorOf(hook[t])
           idx == find_allocation_stale(allocations, realArg[t])
       IN  \/ /\ devLive' = [devLive EXCEPT ![Space(v)] = @ \ {realArg[t]}]
              /\ result' = [result EXCEPT ![t] = SuccessCode(v)]
              /\ realRet' = [realRet EXCEPT ![t] = SuccessCode(v)]
              /\ UNCHANGED <<allocations, quota_used>>
           \/ \E e \in RealErrors(v) :
                /\ result' = [result EXCEPT ![t] = e]
                /\ realRet' = [realRet EXCEPT ![t] = e]
                /\ allocations' = IF tracked[t] /\ idx > 0
                                  THEN [allocations EXCEPT ![idx].in_use = TRUE]
                                  ELSE allocations
                /\ quota_used' = IF tracked[t] /\ idx > 0
                                 THEN WAdd(quota_used, allocations[idx].size)
                                 ELSE quota_used
                /\ UNCHANGED devLive
    /\ pc' = [pc EXCEPT ![t] = "ret"]
    /\ UNCHANGED <<lock, quota_limit, peak_usage, total_allocs, total_frees, failed_allocs,
                   initialized, real, quotaEnv, libLoaded, oneSpace, argVars, calls,
                   realCalls, realArg, realExtra, histVars>>
    /\ UNCHANGED pcieVars
    /\ Observe

(* The real free returns; the hook returns its result. *)
RealFreeReturn(t) ==
    /\ pc[t] = "in_real"
    /\ hook[t] \in FreeHooks
    /\ LET v == VendorOf(hook[t])
       IN  \/ /\ devLive' = [devLive EXCEPT ![Space(v)] = @ \ {realArg[t]}]
              /\ result' = [result EXCEPT ![t] = SuccessCode(v)]
              /\ realRet' = [realRet EXCEPT ![t] = SuccessCode(v)]
           \/ \E e \in RealErrors(v) :
                /\ result' = [result EXCEPT ![t] = e]
                /\ realRet' = [realRet EXCEPT ![t] = e]
                /\ UNCHANGED devLive
    /\ pc' = [pc EXCEPT ![t] = "ret"]
    /\ UNCHANGED <<lock, ctxVars, real, quotaEnv, libLoaded, oneSpace, argVars, calls,
                   realCalls, realArg, realExtra, histVars>>
    /\ UNCHANGED pcieVars
    /\ Observe

QueryFailed_never(res, v) == FALSE

(* if (result != cudaSuccess) return result; *)
QueryFailed(res, v) == res # SuccessCode(v)

(* The real memory-info query returns the physical figures, or fails. *)
RealQueryReturn(t) ==
    /\ pc[t] = "in_real"
    /\ hook[t] \in QueryHooks
    /\ LET v == VendorOf(hook[t])
       IN  \/ \E f \in {0, mock_total} :
                /\ outFree' = [outFree EXCEPT ![t] = f]
                /\ outTotal' = [outTotal EXCEPT ![t] = mock_total]
                /\ result' = [result EXCEPT ![t] = SuccessCode(v)]
                /\ realRet' = [realRet EXCEPT ![t] = SuccessCode(v)]
                /\ pc' = [pc EXCEPT ![t] =
                            IF QueryFailed(SuccessCode(v), v) THEN "ret" ELSE "q_lock"]
           \/ \E e \in RealErrors(v) :
                /\ result' = [result EXCEPT ![t] = e]
                /\ realRet' = [realRet EXCEPT ![t] = e]
                /\ pc' = [pc EXCEPT ![t] = IF QueryFailed(e, v) THEN "ret" ELSE "q_lock"]
                /\ UNCHANGED <<outFree, outTotal>>
    /\ UNCHANGED <<lock, ctxVars, real, envVars, hook, argSize, argPtr, argExtra, calls,
                   realCalls, realArg, realExtra, histVars>>
    /\ UNCHANGED pcieVars
    /\ Observe

(* The virtualized figures are written, to the unlock that ends it. *)
QueryWrite(t) ==
    /\ pc[t] = "q_write"
    /\ outTotal' = [outTotal EXCEPT ![t] = quota_limit]
    /\ outFree' = [outFree EXCEPT ![t] = VirtualFree(quota_limit, quota_used)]
    /\ result' = [result EXCEPT ![t] = SuccessCode(VendorOf(hook[t]))]
    /\ lock' = UnlockAfterQuery(t)
    /\ pc' = [pc EXCEPT ![t] = "ret"]
    /\ UNCHANGED <<ctxVars, real, envVars, hook, argSize, argPtr, argExtra, calls, realVars,
                   histVars>>
    /\ UNCHANGED pcieVars
    /\ Observe

(* The hook returns to the application. *)
Return(t) ==
    /\ pc[t] = "ret"
    /\ pc' = [pc EXCEPT ![t] = "idle"]
    /\ hook' = [hook EXCEPT ![t] = "none"]
    /\ argSize' = [argSize EXCEPT ![t] = 0]
    /\ argPtr' = [argPtr EXCEPT ![t] = NULL]
    /\ result' = [result EXCEPT ![t] = 0]
    /\ outFree' = [outFree EXCEPT ![t] = Untouched]
    /\ outTotal' = [outTotal EXCEPT ![t] = Untouched]
    /\ realCalls' = [realCalls EXCEPT ![t] = 0]
    /\ realArg' = [realArg EXCEPT ![t] = NULL]
    /\ argExtra' = [argExtra EXCEPT ![t] = 0]
    /\ realExtra' = [realExtra EXCEPT ![t] = 0]
    /\ realRet' = [realRet EXCEPT ![t] = 0]
    /\ tracked' = [tracked EXCEPT ![t] = FALSE]
    /\ UNCHANGED <<lock, ctxVars, real, envVars, calls, committed, lost, rt, freed,
                   overlap, maxUsed>>
    /\ UNCHANGED pcieVars
    /\ Observe

(* A vendor runtime is loaded after the interceptor. *)
LoadLibrary(v) ==
    /\ ~libLoaded[v]
    /\ libLoaded' = [libLoaded EXCEPT ![v] = TRUE]
    /\ UNCHANGED <<lock, ctxVars, real, quotaEnv, devLive, oneSpace, pc, argVars, result,
                   calls, realVars, histVars>>
    /\ UNCHANGED pcieVars
    /\ Observe

(* An exported accessor is called.  hcs_get_quota_limit reads the limit and *)
(* returns; the others go for the lock.                                    *)
AccessorCall(t, maxCalls) ==
    /\ pc[t] = "idle"
    /\ calls < maxCalls
    /\ calls' = calls + 1
    /\ \E a \in Accessors :
          /\ hook' = [hook EXCEPT ![t] = a]
          /\ IF a \in LockedAccessors
             THEN /\ pc' = [pc EXCEPT ![t] = "i_lock"]
                  /\ UNCHANGED result
             ELSE /\ pc' = [pc EXCEPT ![t] = "ret"]
                  /\ result' = [result EXCEPT ![t] = quota_limit]
    /\ rt' = NoCommit
    /\ UNCHANGED <<lock, ctxVars, real, envVars, argSize, argPtr, argExtra, outFree, outTotal,
                   realVars, tracked, committed, lost, freed, overlap,
                   maxUsed>>
    /\ UNCHANGED pcieVars
    /\ Observe

(* The locked read of an accessor, to the unlock that ends it.  The three  *)
(* outputs of hcs_get_stats are held in result (allocs), outTotal (frees)  *)
(* and outFree (failed).                                                   *)
AccessorRead(t) ==
    /\ pc[t] = "i_read"
    /\ result' = [result EXCEPT ![t] =
                    IF hook[t] = "hcs_get_quota_used" THEN quota_used
                    ELSE IF hook[t] = "hcs_get_peak_usage" THEN peak_usage
                    ELSE total_allocs]
    /\ outTotal' = [outTotal EXCEPT ![t] =
                      IF hook[t] = "hcs_get_stats" THEN total_frees ELSE outTotal[t]]
    /\ outFree' = [outFree EXCEPT ![t] =
                     IF hook[t] = "hcs_get_stats" THEN failed_allocs ELSE outFree[t]]
    /\ lock' = UnlockAfterAccessor(t)
    /\ pc' = [pc EXCEPT ![t] = "ret"]
    /\ UNCHANGED <<ctxVars, real, envVars, hook, argSize, argPtr, argExtra, calls, realVars,
                   histVars>>
    /\ UNCHANGED pcieVars
    /\ Observe

Step(t, maxCalls, hooks) ==
    \/ Call(t, maxCalls, hooks)
    \/ hcs_init(t)
    \/ Resolve(t)
    \/ AcquireLock(t)
    \/ AdmissionCheck(t)
    \/ RealAllocReturn(t)
    \/ Commit(t)
    \/ FreeRemove(t)
    \/ RealFreeReturn(t)
    \/ RealQueryReturn(t)
    \/ QueryWrite(t)
    \/ Return(t)

Next == \E t \in Threads : Step(t, MaxCalls, ConcHooks)

Spec == Init /\ [][Next]_vars

(* A single application thread: the sequential runs. *)
SeqNext == Step(1, SeqMaxCalls, Hooks)

SeqSpec == SeqInit /\ [][SeqNext]_vars

(* Vendor runtimes that come and go missing: the lazy binding. *)
BindNext == Step(1, BindMaxCalls, Hooks) \/ (\E v \in Vendors : LoadLibrary(v))

BindSpec == BindInit /\ [][BindNext]_vars

(* One call, under any quota setting. *)
ParseNext == Step(1, ParseMaxCalls, Hooks)

ParseSpec == ParseInit /\ [][ParseNext]_vars

(* A single thread that uses several vendor runtimes at once. *)
VendorNext == Step(1, VendorMaxCalls, Hooks)

VendorSpec == VendorInit /\ [][VendorNext]_vars

(* Two callers, hooks and accessors; thread 2 is scheduled fairly and its  *)
(* real vendor calls return, thread 1 may stay in a real call for ever.    *)
Progress(t) ==
    \/ hcs_init(t)
    \/ Resolve(t)
    \/ AcquireLock(t)
    \/ AdmissionCheck(t)
    \/ RealAllocReturn(t)
    \/ Commit(t)
    \/ FreeRemove(t)
    \/ RealFreeReturn(t)
    \/ RealQueryReturn(t)
    \/ QueryWrite(t)
    \/ AccessorRead(t)
    \/ Return(t)

LiveNext ==
    \E t \in Threads :
        \/ Call(t, LiveMaxCalls, ConcHooks)
        \/ AccessorCall(t, LiveMaxCalls)
        \/ Progress(t)

LiveSpec == LiveInit /\ [][LiveNext]_vars /\ WF_vars(Progress(2))

(* --------------------------- PCIe telemetry ---------------------------- *)
(* A probe fires on CPU c and calls update_stats. *)
update_stats(c) ==
    /\ upc[c] = "idle"
    /\ updates < MaxUpdates
    /\ updates' = updates + 1
    /\ \E a \in ProbeArgs :
          /\ uarg' = [uarg EXCEPT ![c] = a]
          /\ passed' = [passed EXCEPT ![a.dev] =
                          Counts(@.read_bytes + a.read_bytes,
                                 @.write_bytes + a.write_bytes,
                                 @.replay_count + a.replay_count)]
    /\ upc' = [upc EXCEPT ![c] = "lookup"]
    /\ UNCHANGED <<pcie_stats_map, rpc, rdev, emitted, reads, hcsVars>>

(* stats = bpf_map_lookup_elem(&pcie_stats_map, &device_id) *)
UpdateLookup(c) ==
    /\ upc[c] = "lookup"
    /\ upc' = [upc EXCEPT ![c] =
                  IF pcie_stats_map[uarg[c].dev].present THEN "add_read" ELSE "insert"]
    /\ UNCHANGED <<pcie_stats_map, uarg, rpc, rdev, emitted, passed, updates, reads,
                   hcsVars>>

(* if (!stats): bpf_map_update_elem(.., &new_stats, BPF_ANY) stores the    *)
(* arguments as the element, replacing an element stored meanwhile.        *)
UpdateInsert(c) ==
    /\ upc[c] = "insert"
    /\ pcie_stats_map' = [pcie_stats_map EXCEPT ![uarg[c].dev] =
                             pcie_stats(uarg[c].read_bytes, uarg[c].write_bytes,
                                        uarg[c].replay_count)]
    /\ upc' = [upc EXCEPT ![c] = "idle"]
    /\ uarg' = [uarg EXCEPT ![c] = NoUpdate]
    /\ UNCHANGED <<rpc, rdev, emitted, passed, updates, reads, hcsVars>>

(* __sync_fetch_and_add(&stats->read_bytes, read_bytes) *)
UpdateAddRead(c) ==
    /\ upc[c] = "add_read"
    /\ pcie_stats_map' = [pcie_stats_map EXCEPT ![uarg[c].dev].read_bytes =
                             @ + uarg[c].read_bytes]
    /\ upc' = [upc EXCEPT ![c] = "add_write"]
    /\ UNCHANGED <<uarg, rpc, rdev, emitted, passed, updates, reads, hcsVars>>

(* __sync_fetch_and_add(&stats->write_bytes, write_bytes) *)
UpdateAddWrite(c) ==
    /\ upc[c] = "add_write"
    /\ pcie_stats_map' = [pcie_stats_map EXCEPT ![uarg[c].dev].write_bytes =
                             @ + uarg[c].write_bytes]
    /\ upc' = [upc EXCEPT ![c] = "add_replay"]
    /\ UNCHANGED <<uarg, rpc, rdev, emitted, passed, updates, reads, hcsVars>>

(* __sync_fetch_and_add(&stats->replay_count, replay_count), the time      *)
(* stamp, return                                                           *)
UpdateAddReplay(c) ==
    /\ upc[c] = "add_replay"
    /\ pcie_stats_map' = [pcie_stats_map EXCEPT ![uarg[c].dev].replay_count =
                             @ + uarg[c].replay_count]
    /\ upc' = [upc EXCEPT ![c] = "idle"]
    /\ uarg' = [uarg EXCEPT ![c] = NoUpdate]
    /\ UNCHANGED <<rpc, rdev, emitted, passed, updates, reads, hcsVars>>

(* User space runs the periodic reader. *)
handle_pcie_read ==
    /\ rpc = "idle"
    /\ reads < MaxReads
    /\ reads' = reads + 1
    /\ rpc' = "lookup"
    /\ rdev' = 0
    /\ UNCHANGED <<pcie_stats_map, upc, uarg, emitted, passed, updates, hcsVars>>

(* the reader's position once it is done with device d *)
NextDevice(d) == IF d + 1 \in Devices THEN "lookup" ELSE "idle"

(* The head of the loop body: the lookup and the test of last_update; a    *)
(* device without an element, or one not updated within the last second,   *)
(* is passed over.                                                         *)
ReadLookup ==
    /\ rpc = "lookup"
    /\ \/ /\ pcie_stats_map[rdev].present
          /\ rpc' = "submit"
          /\ UNCHANGED rdev
       \/ /\ rpc' = NextDevice(rdev)
          /\ rdev' = IF rdev + 1 \in Devices THEN rdev + 1 ELSE 0
    /\ UNCHANGED <<pcie_stats_map, upc, uarg, emitted, passed, updates, reads, hcsVars>>

(* submit_pcie_event(device_id, stats->read_bytes, stats->write_bytes,     *)
(* stats->replay_count): the counters are read and the event is put into   *)
(* the ring buffer.                                                        *)
submit_pcie_event ==
    /\ rpc = "submit"
    /\ emitted' = [emitted EXCEPT ![rdev] =
                      Counts(@.read_bytes + pcie_stats_map[rdev].read_bytes,
                             @.write_bytes + pcie_stats_map[rdev].write_bytes,
                             @.replay_count + pcie_stats_map[rdev].replay_count)]
    /\ rpc' = "reset_read"
    /\ UNCHANGED <<pcie_stats_map, upc, uarg, rdev, passed, updates, reads, hcsVars>>

(* __sync_fetch_and_and(&stats->read_bytes, 0) *)
ResetRead ==
    /\ rpc = "reset_read"
    /\ pcie_stats_map' = [pcie_stats_map EXCEPT ![rdev].read_bytes = 0]
    /\ rpc' = "reset_write"
    /\ UNCHANGED <<upc, uarg, rdev, emitted, passed, updates, reads, hcsVars>>

(* __sync_fetch_and_and(&stats->write_bytes, 0) *)
ResetWrite ==
    /\ rpc = "reset_write"
    /\ pcie_stats_map' = [pcie_stats_map EXCEPT ![rdev].write_bytes = 0]
    /\ rpc' = "reset_replay"
    /\ UNCHANGED <<upc, uarg, rdev, emitted, passed, updates, reads, hcsVars>>

(* __sync_fetch_and_and(&stats->replay_count, 0), and on to the next device *)
ResetReplay ==
    /\ rpc = "reset_replay"
    /\ pcie_stats_map' = [pcie_stats_map EXCEPT ![rdev].replay_count = 0]
    /\ rpc' = NextDevice(rdev)
    /\ rdev' = IF rdev + 1 \in Devices THEN rdev + 1 ELSE 0
    /\ UNCHANGED <<upc, uarg, emitted, passed, updates, reads, hcsVars>>

PcieNext ==
    \/ \E c \in Cpus :
          \/ update_stats(c)
          \/ UpdateLookup(c)
          \/ UpdateInsert(c)
          \/ UpdateAddRead(c)
          \/ UpdateAddWrite(c)
          \/ UpdateAddReplay(c)
    \/ handle_pcie_read
    \/ ReadLookup
    \/ submit_pcie_event
    \/ ResetRead
    \/ ResetWrite
    \/ ResetReplay

(* The probes on the CPUs and the reader, the interceptor not being used. *)
PcieSpec == Init /\ [][PcieNext]_vars

(* ======================= properties of the hooks ======================= *)
(* C1: an allocate hook whose binding is resolved denies the request if    *)
(* and only if used + requested > limit at the locked check; on denial     *)
(* used is unchanged and the real allocator is not invoked.                *)
C1_DeniedIffOverLimit ==
    [][\A t \in Threads :
         (pc[t] = "check" /\ pc'[t] # "check") =>
            /\ Denies(t) <=> (quota_used + argSize[t] > quota_limit)
            /\ Denies(t) => (quota_used' = quota_used /\ realCalls'[t] = 0)]_vars

(* C2: a denied allocate call returns the vendor's out-of-memory code      *)
(* (CUDA 2, ACL 107000, HIP 2), adds exactly one to failed_allocs and      *)
(* leaves used, peak, total_allocs, total_frees, the table and the         *)
(* caller's output handle as they were.                                    *)
C2_DenialFrame ==
    /\ "C2" \in watch /\ "C2" \notin broken

C2_Witness ==
    \E t \in Threads :
        /\ pc[t] = "ret" /\ hook[t] = "cudaMalloc" /\ result[t] = cudaErrorMemoryAllocation
        /\ failed_allocs = 1 /\ quota_used > 0 /\ argPtr[t] = Untouched

(* C3: in a single-threaded run used always equals the sum of the sizes of *)
(* the live table entries.                                                 *)
C3_Conservation == quota_used = LiveSum(allocations)

(* C3 as amended: used equals the live sum plus the sizes of the           *)
(* allocations committed while the table had no free slot.                 *)
C3_ConservationUpToUntracked == quota_used = LiveSum(allocations) + lost

C3_Witness ==
    /\ lost = 0 /\ total_allocs >= 2 /\ total_frees >= 1
    /\ LiveCount >= 1 /\ quota_used > 0

(* C4: a memory-info hook that returns success reports total = limit and   *)
(* free = max(0, limit - used), free <= total, from one locked snapshot,   *)
(* whatever the real query wrote.                                          *)
C4_VirtualizedInfo ==
    /\ "C4" \in watch /\ "C4" \notin broken

C4_Witness ==
    \E t \in Threads :
        /\ pc[t] = "ret" /\ hook[t] \in QueryHooks /\ result[t] = 0
        /\ quota_used > 0 /\ quota_used < quota_limit
        /\ outTotal[t] = quota_limit /\ outFree[t] = quota_limit - quota_used

(* C5: an admitted allocate(S) that succeeds, followed by the free of the  *)
(* handle it returned, leaves used at its value before the allocate.       *)
C5_RoundTrip ==
    [][\A t \in Threads : FreesLastCommit(t) => quota_used' = rt.used]_vars

(* C5 as amended: ... provided the table had a free slot for the entry.    *)
C5_RoundTripWhenStored ==
    /\ "C5" \in watch /\ "C5" \notin broken

C5_Witness ==
    \E t \in Threads :
        /\ pc[t] = "in_real" /\ hook[t] \in FreeHooks
        /\ rt.ptr # NULL /\ argPtr[t] = rt.ptr /\ rt.stored
        /\ rt.size > 0 /\ rt.used > 0 /\ quota_used = rt.used

UntrackedFreeFrame == [][UntrackedFreeStep]_vars

(* C6: a free of the null handle or of a handle with no live entry never   *)
(* changes used, peak, total_allocs or total_frees, and always forwards to *)
(* the real free, returning its result.                                    *)
C6_FreeSafety ==
    /\ UntrackedFreeFrame
    /\ [](\A t \in Threads :
            (pc[t] = "ret" /\ hook[t] \in FreeHooks /\ ~tracked[t]) => Forwarded(t))

(* C6 as amended: ... and forwards to the real free whenever that function *)
(* is resolved; when it is not, the hook returns the invalid-argument code *)
(* and calls nothing.                                                      *)
C6_FreeSafetyWhenResolved ==
    /\ "C6" \in watch /\ "C6" \notin broken
    /\   (\A t \in Threads :
            (pc[t] = "ret" /\ hook[t] \in FreeHooks /\ ~tracked[t]) =>
               IF real[hook[t]] THEN Forwarded(t)
               ELSE realCalls[t] = 0 /\ result[t] = InvalidOf(hook[t]))

C6_Witness ==
    \E t \in Threads :
        /\ pc[t] = "ret" /\ hook[t] \in FreeHooks /\ argPtr[t] = ForeignHandle
        /\ Forwarded(t) /\ quota_used > 0 /\ LiveCount >= 1

(* C7: every call of a free hook invokes the vendor's real free exactly    *)
(* once, with the same handle, and returns its result unchanged.           *)
C7_RealFreeAlways ==
    \A t \in Threads :
        hook[t] \in FreeHooks =>
            /\ realCalls[t] <= 1
            /\ pc[t] = "ret" => Forwarded(t)

(* C7 as amended: every call of a free hook whose real free is resolved... *)
C7_RealFreeWhenResolved ==
    \A t \in Threads :
        hook[t] \in FreeHooks =>
            /\ realCalls[t] <= 1
            /\ (pc[t] = "ret" /\ real[hook[t]]) => Forwarded(t)
            /\ (pc[t] = "in_real") => (realCalls[t] = 1 /\ realArg[t] = argPtr[t])

C7_Witness ==
    \E t \in Threads :
        /\ pc[t] = "ret" /\ hook[t] \in FreeHooks /\ tracked[t]
        /\ realCalls[t] = 1 /\ result[t] = UnknownError /\ total_frees = 1

(* C8: with limit L, after one admitted allocation of size a a request b   *)
(* with a + b > L is denied and used stays a; once the first handle is     *)
(* freed used is 0 and a request b <= L is admitted.                       *)
C8_ScenarioA ==
    [][(pc[1] = "check" /\ pc'[1] # "check" /\ total_allocs = 1) =>
         /\ (total_frees = 0 /\ LiveCount = 1 /\ quota_used + argSize[1] > quota_limit)
               => (Denies(1) /\ quota_used' = quota_used)
         /\ (total_frees = 1 /\ argSize[1] <= quota_limit)
               => (quota_used = 0 /\ Admits(1))]_vars

(* C9: in a series of allocations every request that keeps the cumulative  *)
(* size within the limit is admitted, used is the cumulative size, and a   *)
(* request that would take it above the limit is denied.                   *)
C9_ScenarioB ==
    [][(pc[1] = "check" /\ pc'[1] # "check" /\ total_frees = 0) =>
         /\ quota_used = committed
         /\ (committed + argSize[1] <= quota_limit) => Admits(1)
         /\ (committed + argSize[1] > quota_limit) => Denies(1)]_vars

(* C10: no thread holds the quota lock while it is inside a real vendor    *)
(* call, and every hook returns with the lock released.                    *)
C10_NoLockAcrossRealCalls ==
    \A t \in Threads : lock = t => pc[t] \in {"check", "commit", "f_remove", "q_write"}

C10_Witness ==
    \E t, u \in Threads :
        /\ t # u /\ pc[t] = "in_real" /\ lock = u /\ pc[u] = "commit"

(* some thread that has a call in progress can take a step *)
CanProgress == (\E t \in Threads : pc[t] # "idle") => ENABLED (\E t \in Threads : Progress(t))

(* C11: while thread 1 stays inside a real vendor call for ever, every     *)
(* call of thread 2 (admission check, free bookkeeping, memory-info        *)
(* virtualization, accessor) gets the lock and returns, provided its own   *)
(* real call returns; and the system never deadlocks.                      *)
C11_ProgressDespiteSlowCall ==
    /\ []CanProgress
    /\ <>[](pc[1] = "in_real") => [](pc[2] # "idle" => <>(pc[2] = "idle"))

C11_Witness ==
    /\ pc[1] = "in_real" /\ hook[1] \in AllocHooks
    /\ lock = 2 /\ pc[2] \in {"check", "f_remove", "q_write", "i_read"}

(* C12: when an admitted allocate request fails in the real allocator the  *)
(* hook returns the allocator's code unchanged, and no step of the call    *)
(* changes used, peak, the three counters or the table.                    *)
C12_RealFailureFrame ==
    /\ "C12" \in watch /\ "C12" \notin broken

C12_Witness ==
    \E t \in Threads :
        /\ pc[t] = "ret" /\ hook[t] \in AllocHooks /\ realCalls[t] = 1
        /\ realRet[t] = UnknownError /\ result[t] = UnknownError
        /\ quota_used > 0 /\ total_allocs = 1 /\ failed_allocs = 0

(* C13: a hook whose real function cannot be resolved even by the          *)
(* call-time lookup returns the vendor's invalid-argument code (CUDA 1,    *)
(* ACL 107001, HIP 1), changes neither used, peak, the counters nor the    *)
(* table, never takes the lock and calls no real function.                 *)
C13_BindingUnresolved ==
    /\ "C13" \in watch /\ "C13" \notin broken
    /\   (\A t \in Threads :
            (hook[t] \in Hooks /\ pc[t] \notin {"idle", "init", "resolve"}
               /\ ~real[hook[t]]) =>
              (pc[t] = "ret" /\ lock # t /\ realCalls[t] = 0
                 /\ result[t] = InvalidArgOf(hook[t])))

C13_Witness ==
    \E t \in Threads :
        /\ pc[t] = "ret" /\ hook[t] = "aclrtGetMemInfo" /\ ~real[hook[t]]
        /\ result[t] = 107001 /\ outTotal[t] = Untouched
        /\ quota_used > 0 /\ LiveCount = 1

(* C14: an admitted allocation that succeeds while every table slot is     *)
(* live still returns success and updates used, peak and total_allocs, but *)
(* stores no entry; the free of its handle leaves used as it is, and the   *)
(* bytes committed without an entry stay counted in used.                  *)
C14_TableFullLeak ==
    /\ "C14" \in watch /\ "C14" \notin broken
    /\   (quota_used >= lost)

C14_Witness ==
    /\ pc[1] = "in_real" /\ hook[1] \in FreeHooks
    /\ rt.ptr # NULL /\ argPtr[1] = rt.ptr /\ ~rt.stored /\ rt.size > 0
    /\ lost = rt.size /\ quota_used = rt.used + rt.size /\ LiveCount = MAX_ALLOCATIONS

(* C15: when the real memory-info query returns an error the hook returns  *)
(* that error unchanged, writes nothing into the caller's outputs, does    *)
(* not take the lock and leaves limit and the quota figures alone.         *)
C15_QueryErrorPropagated ==
    /\ "C15" \in watch /\ "C15" \notin broken
    /\   (\A t \in Threads :
            (hook[t] \in QueryHooks /\ realCalls[t] = 1 /\ realRet[t] # 0) =>
              (pc[t] = "ret" /\ lock # t /\ result[t] = realRet[t]
                 /\ outFree[t] = Untouched /\ outTotal[t] = Untouched))

C15_Witness ==
    \E t \in Threads :
        /\ pc[t] = "ret" /\ hook[t] = "cudaMemGetInfo" /\ realCalls[t] = 1
        /\ result[t] = UnknownError /\ outTotal[t] = Untouched
        /\ quota_used > 0 /\ quota_used < quota_limit

(* C16: when the configured quota is a recognized numeric zero, limit is 0 *)
(* and every allocate request through every vendor hook is denied, for     *)
(* every request size.                                                     *)
C16_ZeroQuotaDeniesAll ==
    [][ZeroQuotaCheck => (quota_limit = 0 /\ Denies(1))]_vars

(* C16 as amended: ... every request of a size greater than 0 is denied; a *)
(* request of size 0 passes the check (0 + 0 > 0 is false).                *)
C16_ZeroQuotaDeniesNonEmpty ==
    /\ "C16" \in watch /\ "C16" \notin broken

C16_Witness ==
    /\ quotaEnv = <<"0">> /\ quota_limit = 0
    /\ pc[1] = "ret" /\ hook[1] = "hipMalloc" /\ argSize[1] = 1
    /\ result[1] = 2 /\ failed_allocs = 3 /\ total_allocs = 1

(* the setting starts with a number: after blanks and an optional sign     *)
(* comes a digit, or a point and a digit                                   *)
StartsNumber(s) ==
    LET s1 == SkipSpaces(s)
        s2 == IF s1 # << >> /\ Head(s1) \in {"+", "-"} THEN Tail(s1) ELSE s1
    IN  /\ s2 # << >>
        /\ \/ IsDigit(Head(s2))
           \/ Head(s2) = "." /\ Len(s2) >= 2 /\ IsDigit(s2[2])

(* C17: initialization leaves limit at the 4 GiB fallback (4 units here)   *)
(* whenever the quota setting is unset or has no leading number; only a    *)
(* setting that parses as a number gives another limit.                    *)
C17_FallbackWhenUnparseable ==
    (initialized /\ ~StartsNumber(quotaEnv)) => quota_limit = 4

(* C18: once the initialized latch is set no step changes limit or clears  *)
(* the latch; an initialize that finds the latch set returns at once, and  *)
(* one that races past the latch test leaves used, peak, the counters and  *)
(* the table unchanged.                                                    *)
C18_InitIdempotent ==
    /\ "C18" \in watch /\ "C18" \notin broken

C18_Witness ==
    \E t \in Threads :
        /\ pc[t] = "resolve" /\ initialized
        /\ quota_used > 0 /\ total_allocs = 1 /\ LiveCount = 1 /\ quota_limit = 2

(* the one result: the byte count with these base-1000 limbs *)
Exactly(limbs) == {[wrapped |-> FALSE, mag |-> limbs]}

(* the multiplier the claim gives a unit suffix, as base and exponent;     *)
(* exponent -1 for a suffix the claim does not speak of                    *)
ClaimedUnit(suffix) ==
    LET low == [i \in 1 .. Len(suffix) |-> Lower(suffix[i])]
    IN  IF low = << >> THEN <<1, 0>>
        ELSE IF low \in {<<"k">>, <<"k", "b">>} THEN <<1000, 1>>
        ELSE IF low \in {<<"m">>, <<"m", "b">>} THEN <<1000, 2>>
        ELSE IF low \in {<<"g">>, <<"g", "b">>} THEN <<1000, 3>>
        ELSE IF low \in {<<"k", "i">>, <<"k", "i", "b">>} THEN <<1024, 1>>
        ELSE IF low \in {<<"m", "i">>, <<"m", "i", "b">>} THEN <<1024, 2>>
        ELSE IF low \in {<<"g", "i">>, <<"g", "i", "b">>} THEN <<1024, 3>>
        ELSE <<1, 0 - 1>>

(* digits followed by a unit suffix give the number times the multiplier *)
LiteralWithUnit(s) ==
    LET n == LeadingDigits(s)
        u == ClaimedUnit(SubSeq(s, n + 1, Len(s)))
    IN  (n >= 1 /\ u[2] >= 0) =>
           parse_size_string(s) = Exactly(BigMulPow(BigFromInt(DecimalValue(s, n)), u[1], u[2]))

ParseExamples ==
    /\ parse_size_string(<<"1", "6", "G", "i">>) = Exactly(<<184, 869, 179, 17>>)
    /\ parse_size_string(<<"4", "G">>) = Exactly(<<0, 0, 0, 4>>)
    /\ parse_size_string(<<"1", "0", "2", "4">>) = Exactly(<<24, 1>>)
    /\ parse_size_string(<<"4", "g", "b">>) = Exactly(<<0, 0, 0, 4>>)

(* C19: size parsing maps a numeric literal with an optional unit suffix   *)
(* to a byte count ("16Gi" 17179869184, "4G" 4000000000, "1024" 1024; no   *)
(* suffix bytes, decimal suffixes powers of 1000, binary ones powers of    *)
(* 1024, case-insensitively), and a string with no leading numeric digits  *)
(* gives 0.                                                                *)
C19_SizeParsing ==
    /\ ParseExamples
    /\ LiteralWithUnit(quotaEnv)
    /\ (quotaEnv = << >> \/ ~IsDigit(Head(quotaEnv))) =>
          parse_size_string(quotaEnv) = Exactly(<< >>)

(* C19 as amended: ... and a string that does not start with a number      *)
(* (after blanks and an optional sign: a digit, or a point and a digit)    *)
(* gives 0; a sign and a fraction are read as part of the number, "+5"     *)
(* gives 5 and ".5K" gives 500.                                            *)
C19_SizeParsingOfNumbers ==
    /\ ParseExamples
    /\ LiteralWithUnit(quotaEnv)
    /\ ~StartsNumber(quotaEnv) => parse_size_string(quotaEnv) = Exactly(<< >>)
    /\ parse_size_string(<<"+", "5">>) = Exactly(<<5>>)
    /\ parse_size_string(<<".", "5", "K">>) = Exactly(<<500>>)

C19_Witness ==
    /\ initialized /\ quotaEnv = <<"5", "K", "i">>
    /\ parse_size_string(quotaEnv) = Exactly(<<120, 5>>) /\ quota_limit = 0

(* C20: over-admission is reachable: two concurrent allocate calls both    *)
(* pass the locked check before either commits, both real allocations     *)
(* succeed, and after both commits used > limit, although each request     *)
(* alone satisfied used + requested <= limit at its check.                 *)
C20_EachAdmittedWithinLimit ==
    /\ "C20" \in watch /\ "C20" \notin broken

C20_Witness ==
    /\ quota_used > quota_limit
    /\ total_allocs = 2 /\ failed_allocs = 0 /\ total_frees = 0 /\ LiveCount = 2
    /\ \A t \in Threads :
          /\ pc[t] = "ret" /\ hook[t] \in AllocHooks /\ result[t] = 0
          /\ argSize[t] > 0 /\ argSize[t] <= quota_limit /\ HasLiveEntry(argPtr[t])

(* C21: under any interleaving of concurrent allocate and free calls, in   *)
(* every state in which no thread holds the lock used equals the total     *)
(* size of the allocations whose commit has completed minus the total size *)
(* subtracted by frees of tracked handles; a commit updates used, peak,    *)
(* total_allocs and the table in one critical section.                     *)
C21_UsedIsCommittedTotal ==
    /\ "C21" \in watch /\ "C21" \notin broken
    /\   (lock = NoThread => quota_used = committed - freed)

C21_Witness ==
    /\ lock = NoThread /\ committed = 3 /\ freed = 1 /\ quota_used = 2
    /\ \E t, u \in Threads :
          /\ pc[t] = "in_real" /\ hook[t] \in FreeHooks /\ tracked[t]
          /\ pc[u] = "ret" /\ hook[u] \in AllocHooks /\ HasLiveEntry(argPtr[u])

(* the largest size the real allocators grant, and so the largest size any *)
(* commit adds                                                             *)
LargestGrant == MaxBlock

(* C22: over-admission is bounded: with at most N threads calling allocate *)
(* hooks concurrently and every committed request at most S (no wrap of    *)
(* the word), used never exceeds limit + (N - 1) * S.                      *)
C22_OverAdmissionBounded ==
    /\ initialized => quota_used <= quota_limit + (NumThreads - 1) * LargestGrant
    /\ \A t \in Threads : pc[t] \in {"lock2", "commit"} => argSize[t] <= LargestGrant

C22_Witness ==
    /\ quota_limit > 0 /\ LargestGrant > 0
    /\ quota_used = quota_limit + (NumThreads - 1) * LargestGrant
    /\ total_frees = 0 /\ failed_allocs = 0

(* C23: when no two allocate calls overlap between their admission check   *)
(* and their commit (frees may run concurrently), used <= limit and        *)
(* peak <= limit in every reachable state.                                 *)
C23_WithinLimitWithoutOverlap ==
    (initialized /\ ~overlap) => (quota_used <= quota_limit /\ peak_usage <= quota_limit)

C23_Witness ==
    /\ ~overlap /\ total_allocs = 2 /\ total_frees = 1
    /\ quota_used > 0 /\ peak_usage = quota_limit
    /\ \E t, u \in Threads :
          /\ pc[t] = "in_real" /\ hook[t] \in FreeHooks /\ tracked[t]
          /\ pc[u] = "ret" /\ hook[u] \in AllocHooks /\ HasLiveEntry(argPtr[u])

(* C24: in every reachable state the allocation table (one table shared by *)
(* the CUDA, ACL and HIP hooks) holds at most one live entry per handle    *)
(* value, assuming each vendor's real allocator never returns a handle     *)
(* that it has handed out and not yet had freed.                           *)
C24_OneLiveEntryPerHandle ==
    \A p \in Handles : LiveEntriesFor(p) <= 1

(* C24 as amended: ... assuming no real allocator returns a handle value   *)
(* that any vendor's allocator has handed out and not yet had freed.       *)
C24_OneLiveEntryInOneSpace ==
    oneSpace => \A p \in Handles : LiveEntriesFor(p) <= 1

C24_Witness ==
    /\ oneSpace /\ LiveCount = 2 /\ total_frees = 0
    /\ allocations[1].ptr # allocations[2].ptr
    /\ pc[1] = "ret" /\ hook[1] = "aclrtMalloc" /\ HasLiveEntry(argPtr[1])

(* C25: the number of live entries never exceeds the table capacity; an    *)
(* insertion succeeds if and only if fewer than capacity entries are live, *)
(* taking the first non-live slot below the high-water index before        *)
(* appending, so that after the table has been full one free of a tracked  *)
(* handle makes the next insertion succeed; the high-water index never     *)
(* decreases and never exceeds capacity.                                   *)
C25_TableCapacityAndReuse ==
    /\ "C25" \in watch /\ "C25" \notin broken
    /\   (LiveCount <= MAX_ALLOCATIONS /\ Len(allocations) <= MAX_ALLOCATIONS)

C25_Witness ==
    /\ total_allocs = 3 /\ total_frees = 1 /\ lost = 0
    /\ Len(allocations) = MAX_ALLOCATIONS /\ LiveCount = MAX_ALLOCATIONS
    /\ pc[1] = "ret" /\ hook[1] \in AllocHooks /\ allocations[1].ptr = argPtr[1]
    /\ allocations[1].size # allocations[2].size

(* C26: a free of a handle that has a live entry of nonzero size S marks   *)
(* that entry non-live, decreases used by exactly S (to 0 if used < S),    *)
(* increases total_frees by exactly one and leaves peak, total_allocs,     *)
(* failed_allocs and every other entry unchanged; the bookkeeping is done  *)
(* under the lock and completes before the real free is invoked.           *)
C26_TrackedFreeEffect ==
    /\ "C26" \in watch /\ "C26" \notin broken

C26_Witness ==
    \E t \in Threads :
        /\ pc[t] = "in_real" /\ hook[t] \in FreeHooks /\ tracked[t] /\ realCalls[t] = 1
        /\ total_frees = 1 /\ freed = 1 /\ quota_used = 2 /\ peak_usage = 3 /\ LiveCount = 1

EntryOnlyByCommit == [][EntryOnlyByCommitStep]_vars

(* C27: freeing the same tracked handle twice, sequentially or from two    *)
(* threads concurrently, with no allocation returning that handle in       *)
(* between, decrements used and increments total_frees exactly once; the   *)
(* other free finds no live entry and changes no quota state.              *)
C27_DoubleFreeCountsOnce ==
    /\ [][\A t \in Threads :
            FreeBookkeeping(t) =>
               IF HasLiveEntry(argPtr[t])
               THEN /\ total_frees' = total_frees + 1
                    /\ quota_used' =
                          Max0(quota_used - allocations[LiveSlotOf(argPtr[t])].size)
                    /\ ~HasLiveEntry(argPtr[t])'
               ELSE UNCHANGED QuotaFigures]_vars
    /\ EntryOnlyByCommit
    /\ [](total_frees <= total_allocs /\ freed <= committed)

(* C27 as amended: freeing the same tracked handle of nonzero size twice   *)
(* ... exactly once; the first free of a tracked handle of size 0 removes  *)
(* the entry and changes neither used nor total_frees.  (The handle has    *)
(* one live entry.)                                                        *)
C27_DoubleFreeOfNonEmptyCountsOnce ==
    /\ "C27" \in watch /\ "C27" \notin broken
    /\   (total_frees <= total_allocs /\ freed <= committed)

C27_Witness ==
    \E t, u \in Threads :
        /\ t # u /\ hook[t] \in FreeHooks /\ hook[u] \in FreeHooks
        /\ argPtr[t] = argPtr[u] /\ argPtr[t] \in Handles
        /\ pc[t] = "in_real" /\ pc[u] = "in_real" /\ tracked[t] /\ ~tracked[u]
        /\ total_allocs = 1 /\ total_frees = 1 /\ committed = 2 /\ freed = 2
        /\ quota_used = 0 /\ LiveCount = 0

(* C28: peak is the high-water mark of used: it never decreases across any *)
(* operation, in every state where the lock is free peak >= used, and peak *)
(* equals the maximum value used has held after any commit so far.         *)
C28_PeakIsHighWaterMark ==
    /\ "C28" \in watch /\ "C28" \notin broken
    /\   (lock = NoThread => (peak_usage >= quota_used /\ peak_usage = maxUsed))

C28_Witness ==
    /\ lock = NoThread /\ peak_usage = 4 /\ maxUsed = 4 /\ quota_used = 2
    /\ total_allocs = 2 /\ total_frees = 1

(* C29: the counters never decrease and count exactly: total_allocs rises  *)
(* by one per committed successful allocation and by nothing else,         *)
(* failed_allocs by one per admission denial and by nothing else,          *)
(* total_frees by one per free that removes a live entry of nonzero size   *)
(* and by nothing else.                                                    *)
C29_CountersExact ==
    /\ "C29" \in watch /\ "C29" \notin broken

C29_Witness ==
    /\ total_allocs = 1 /\ failed_allocs = 1 /\ total_frees = 1
    /\ lock = NoThread /\ quota_used = 0 /\ committed = 2

(* C30: the four allocate hooks run the same protocol: from equal quota    *)
(* states, with equal request sizes and equal outcomes of the real         *)
(* allocator, they produce equal used, peak, counters and table, and       *)
(* differ only in the vendor return codes and in the extra flags or policy *)
(* argument, which is passed to the real function unchanged; the three     *)
(* free hooks and the three query hooks are likewise equivalent.           *)
C30_HooksEquivalent ==
    /\ "C30" \in watch /\ "C30" \notin broken

C30_Witness ==
    /\ pc[1] = "ret" /\ hook[1] = "cudaMallocManaged" /\ result[1] = 0
    /\ argExtra[1] = 2 /\ realExtra[1] = 2 /\ realCalls[1] = 1
    /\ HasLiveEntry(argPtr[1]) /\ total_allocs = 2 /\ failed_allocs = 1

(* C31: lazy binding: a call whose real function was not found at load     *)
(* time and whose vendor runtime is available by now resolves it in that   *)
(* call and goes on with the normal protocol; a resolved binding stays     *)
(* resolved; the resolution of one hook's binding reads and writes no      *)
(* other binding.                                                          *)
C31_LazyBinding ==
    /\ "C31" \in watch /\ "C31" \notin broken

C31_Witness ==
    \E t \in Threads :
        /\ hook[t] = "cudaMalloc" /\ pc[t] = "ret" /\ result[t] = 0 /\ realCalls[t] = 1
        /\ real["cudaMalloc"] /\ ~real["cudaFree"] /\ ~real["hipMalloc"]
        /\ ~libLoaded["hip"] /\ total_allocs = 1

(* C32: the quota is pooled across the vendors: every admission check, of  *)
(* any vendor's allocate hook, is made against the total charged through   *)
(* all vendors, so that an entry held by one vendor counts against a       *)
(* request through another; every memory-info hook reports                 *)
(* limit - that total; a free hook of any vendor removes the live entry    *)
(* with the handle it is given, whichever vendor's space the handle is in. *)
C32_PooledQuota ==
    /\ "C32" \in watch /\ "C32" \notin broken

C32_Witness ==
    \E t \in Threads :
        /\ ~oneSpace /\ hook[t] = "hipMalloc" /\ pc[t] = "ret" /\ result[t] = 2
        /\ argSize[t] > 0 /\ argSize[t] <= quota_limit /\ realCalls[t] = 0
        /\ devLive["hip"] = {} /\ devLive["cuda"] # {} /\ devLive["acl"] # {}
        /\ LiveCount = 2 /\ quota_used = quota_limit /\ failed_allocs = 1

(* a free through one vendor's hook of a handle that only another vendor's *)
(* allocator has handed out                                                *)
C32_CrossVendorFree ==
    \E t \in Threads :
        /\ ~oneSpace /\ hook[t] = "hipFree" /\ pc[t] = "in_real" /\ tracked[t]
        /\ devLive["cuda"] = {argPtr[t]} /\ devLive["acl"] = {} /\ devLive["hip"] = {}
        /\ total_allocs = 1 /\ total_frees = 1 /\ quota_used = 0 /\ LiveCount = 0

(* C33: the bookkeeping of a free does not depend on what the real free    *)
(* returns: when the real free of a tracked handle is called, and when it  *)
(* has returned, with an error or with success, the entry is removed and   *)
(* used is decreased already; the return of the real free changes no quota *)
(* state, so an error leaves the state a successful free leaves.           *)
C33_FreeIgnoresRealOutcome ==
    /\ "C33" \in watch /\ "C33" \notin broken
    /\   (\A t \in Threads :
            (hook[t] \in FreeHooks /\ pc[t] \in {"in_real", "ret"} /\ tracked[t]) =>
               /\ ~HasLiveEntry(argPtr[t])
               /\ quota_used = committed - freed
               /\ (rt.ptr = argPtr[t] /\ rt.stored) => quota_used = rt.used)

C33_Witness ==
    \E t \in Threads :
        /\ hook[t] \in FreeHooks /\ pc[t] = "ret" /\ tracked[t]
        /\ realRet[t] = UnknownError /\ result[t] = UnknownError
        /\ argPtr[t] \in devLive["shared"] /\ ~HasLiveEntry(argPtr[t])
        /\ rt.ptr = argPtr[t] /\ rt.size = 2 /\ rt.used = 1 /\ quota_used = 1
        /\ total_allocs = 2 /\ total_frees = 1 /\ LiveCount = 1

(* C34: the admission check is sound for every size of the machine word:   *)
(* a request with size > limit - used is denied, whatever the size.        *)
C34_AdmissionSoundForAllSizes ==
    [][\A t \in Threads :
         (pc[t] = "check" /\ pc'[t] # "check" /\ argSize[t] > quota_limit - quota_used) =>
            Denies(t)]_vars

(* C35: in every state in which the lock is free, under any interleaving   *)
(* and also after the table has overflowed, used is at least the total     *)
(* size of the live entries; so at every free of a tracked handle used is  *)
(* at least the size recorded for it and the free subtracts that size, the *)
(* clamp to 0 not being taken.                                             *)
C35_UsedCoversLiveEntries ==
    /\ "C35" \in watch /\ "C35" \notin broken
    /\   (lock = NoThread => quota_used >= LiveSum(allocations))

C35_Witness ==
    /\ lock = NoThread /\ lost > 0 /\ overlap
    /\ LiveCount = MAX_ALLOCATIONS /\ quota_used > LiveSum(allocations)
    /\ total_allocs = 3 /\ quota_used = 3

(* C36: in every state in which the lock is free total_frees is at most    *)
(* total_allocs and the table holds at most total_allocs - total_frees     *)
(* live entries.                                                           *)
C36_CountersBoundLiveEntries ==
    lock = NoThread =>
        (total_frees <= total_allocs /\ LiveCount <= total_allocs - total_frees)

C36_Witness ==
    /\ lock = NoThread /\ total_allocs = 2 /\ total_frees = 0 /\ LiveCount = 1
    /\ lost = 0 /\ quota_used > 0
    /\ \E t \in Threads :
          hook[t] \in FreeHooks /\ pc[t] = "in_real" /\ tracked[t] /\ realCalls[t] = 1

(* no update_stats and no handle_pcie_read is in progress *)
PcieQuiet == rpc = "idle" /\ \A c \in Cpus : upc[c] = "idle"

(* C37: PCIe telemetry loses no counts: for each device, whenever no call  *)
(* is in progress, the sum of read_bytes (likewise write_bytes and         *)
(* replay_count) over the events emitted plus the value held in the        *)
(* statistics map equals the total passed to update_stats for that device. *)
C37_NoCountsLost ==
    PcieQuiet =>
        \A d \in Devices :
            /\ emitted[d].read_bytes + pcie_stats_map[d].read_bytes = passed[d].read_bytes
            /\ emitted[d].write_bytes + pcie_stats_map[d].write_bytes
                  = passed[d].write_bytes
            /\ emitted[d].replay_count + pcie_stats_map[d].replay_count
                  = passed[d].replay_count

=============================================================================
